---- MODULE Spec2Model ----
(***************************************************************************)
(* A model of the sensehat crate: the HTS221 humidity driver, the LPS25H  *)
(* pressure driver and the SenseHat facade over them.                     *)
(*                                                                         *)
(* Every public function is an operator that threads the I2C device       *)
(* through its register transactions exactly as the Rust code does with   *)
(* `?`; every handler is one action.  What the environment decides (the   *)
(* registers the chip holds at each transaction, which transaction fails) *)
(* is an input of the action.  f64 arithmetic is modelled exactly over    *)
(* the rationals, with the IEEE special values Inf and NaN for division   *)
(* by zero; rounding and the sign of zero are not modelled.               *)
(***************************************************************************)
EXTENDS Integers, Sequences, FiniteSets, TLC

VARIABLES
    rom,    \* the HTS221's factory calibration registers (never written)
    hat,    \* Option<SenseHat>: <<>> or <<the handle>>
    last    \* the last call: its name, result and bus traffic

vars == <<rom, hat, last>>

---------------------------------------------------------------------------
(* Register maps                                                           *)

hts221_REG_AV_CONF == \h10
hts221_REG_CTRL1 == \h20
hts221_REG_STATUS == \h27
hts221_REG_HUMIDITY_OUT_L == \h28
hts221_REG_HUMIDITY_OUT_H == \h29
hts221_REG_TEMP_OUT_L == \h2a
hts221_REG_TEMP_OUT_H == \h2b
hts221_REG_H0_H_2 == \h30
hts221_REG_H1_H_2 == \h31
hts221_REG_T0_C_8 == \h32
hts221_REG_T1_C_8 == \h33
hts221_REG_T1_T0 == \h35
hts221_REG_H0_T0_OUT == \h36
hts221_REG_H1_T0_OUT == \h3a
hts221_REG_T0_OUT == \h3c
hts221_REG_T1_OUT == \h3e

lps25h_REG_RES_CONF == \h10
lps25h_REG_CTRL_REG_1 == \h20
lps25h_REG_CTRL_REG_2 == \h21
lps25h_REG_STATUS_REG == \h27
lps25h_REG_PRESS_OUT_XL == \h28
lps25h_REG_PRESS_OUT_L == \h29
lps25h_REG_PRESS_OUT_H == \h2a
lps25h_REG_TEMP_OUT_L == \h2b
lps25h_REG_TEMP_OUT_H == \h2c
lps25h_REG_FIFO_CTRL == \h2e

---------------------------------------------------------------------------
(* Integer helpers: u8 bit operations and byteorder::LittleEndian          *)

U8 == 0..255

RECURSIVE BitAnd(_, _)
\* a & b on non-negative integers
BitAnd(a, b) ==
    IF a = 0 \/ b = 0 THEN 0
    ELSE (IF a % 2 = 1 /\ b % 2 = 1 THEN 1 ELSE 0) + 2 * BitAnd(a \div 2, b \div 2)

RECURSIVE Pow2(_)
Pow2(k) == IF k = 0 THEN 1 ELSE 2 * Pow2(k - 1)

\* a >> k on non-negative integers
Shr(a, k) == a \div Pow2(k)

\* LittleEndian::read_i16(&buf): the u16 buf[0] | buf[1] << 8, cast to i16
read_i16_unsigned(buf) == buf[1] + 256 * buf[2]

read_i16(buf) ==
    LET u == buf[1] + 256 * buf[2] IN IF u >= 32768 THEN u - 65536 ELSE u

\* LittleEndian::read_u32(&buf): buf[0] | buf[1] << 8 | buf[2] << 16 | buf[3] << 24
read_u32_swapped(buf) == buf[3] + 256 * buf[2] + 65536 * buf[1] + 16777216 * buf[4]

read_u32(buf) == buf[1] + 256 * buf[2] + 65536 * buf[3] + 16777216 * buf[4]

---------------------------------------------------------------------------
(* f64 as an exact rational n/d in lowest terms with d > 0; d = 0 encodes *)
(* the IEEE specials: n = 1 is +Inf, n = -1 is -Inf, n = 0 is NaN.        *)

Abs(i) == IF i < 0 THEN -i ELSE i

Sign(i) == IF i < 0 THEN -1 ELSE IF i > 0 THEN 1 ELSE 0

RECURSIVE Gcd(_, _)
Gcd(a, b) == IF b = 0 THEN a ELSE Gcd(b, a % b)

Ratio(n, d) ==
    LET g == Gcd(Abs(n), Abs(d)) IN
    [n |-> Sign(d) * (n \div g), d |-> Abs(d) \div g]

F64_NAN == [n |-> 0, d |-> 0]

F64_inf(s) == [n |-> s, d |-> 0]

is_nan(x) == x.d = 0 /\ x.n = 0

is_infinite(x) == x.d = 0 /\ x.n # 0

is_finite(x) == x.d # 0

\* f64::from(i) for an integer type: exact
F64_from(i) == [n |-> i, d |-> 1]

F64_neg(a) == [n |-> -a.n, d |-> a.d]

F64_add(a, b) ==
    IF is_nan(a) \/ is_nan(b) THEN F64_NAN
    ELSE IF is_infinite(a) /\ is_infinite(b)
         THEN (IF a.n = b.n THEN a ELSE F64_NAN)
    ELSE IF is_infinite(a) THEN a
    ELSE IF is_infinite(b) THEN b
    ELSE LET l == (a.d \div Gcd(a.d, b.d)) * b.d
         IN Ratio(a.n * (l \div a.d) + b.n * (l \div b.d), l)

F64_sub(a, b) == F64_add(a, F64_neg(b))

F64_mul(a, b) ==
    IF is_nan(a) \/ is_nan(b) THEN F64_NAN
    ELSE IF is_infinite(a) \/ is_infinite(b)
         THEN (IF a.n = 0 \/ b.n = 0 THEN F64_NAN ELSE F64_inf(Sign(a.n) * Sign(b.n)))
    ELSE LET g1 == Gcd(Abs(a.n), b.d)
             g2 == Gcd(Abs(b.n), a.d)
         IN Ratio((a.n \div g1) * (b.n \div g2), (a.d \div g2) * (b.d \div g1))

\* a / b; a zero divisor is +0.0 (every divisor of the code is a difference)
F64_div_total(a, b) ==
    IF is_nan(a) \/ is_nan(b) THEN F64_NAN
    ELSE IF is_infinite(a)
         THEN (IF is_infinite(b) THEN F64_NAN
               ELSE F64_inf(Sign(a.n) * (IF b.n < 0 THEN -1 ELSE 1)))
    ELSE IF is_infinite(b) \/ b.n = 0 THEN F64_from(0)
    ELSE F64_mul(a, [n |-> Sign(b.n) * b.d, d |-> Abs(b.n)])

F64_div(a, b) ==
    IF is_nan(a) \/ is_nan(b) THEN F64_NAN
    ELSE IF is_infinite(a)
         THEN (IF is_infinite(b) THEN F64_NAN
               ELSE F64_inf(Sign(a.n) * (IF b.n < 0 THEN -1 ELSE 1)))
    ELSE IF is_infinite(b) THEN F64_from(0)
    ELSE IF b.n = 0 THEN (IF a.n = 0 THEN F64_NAN ELSE F64_inf(Sign(a.n)))
    ELSE F64_mul(a, [n |-> Sign(b.n) * b.d, d |-> Abs(b.n)])

---------------------------------------------------------------------------
(* Result<T, E> and the error types                                        *)

Ok(v) == [tag |-> "Ok", v |-> v]

Err(e) == [tag |-> "Err", e |-> e]

\* LinuxI2CError has two variants, Nix(..) and Io(..)
LinuxI2CError == {"Nix", "Io"}

\* SenseHatError
NotReady == [kind |-> "NotReady"]

I2CError(err) == [kind |-> "I2CError", cause |-> err]

LSM9DS1Error(err) == [kind |-> "LSM9DS1Error", cause |-> err]

FramebufferError(err) == [kind |-> "FramebufferError", cause |-> err]

\* impl From<LinuxI2CError> for SenseHatError
From_LinuxI2CError(err) == I2CError(err)

---------------------------------------------------------------------------
(* The I2C device (i2cdev::core::I2CDevice).  A device is the handle's    *)
(* address plus, for one call, what the environment decides: chip[i] is   *)
(* the register file the chip holds when the call's i-th transaction      *)
(* reaches it, and transaction number `fail` (0: none) fails with `err`.  *)
(* log is the call's bus traffic, one entry per transaction attempted.    *)

Tx(op, reg, val, err) == [op |-> op, reg |-> reg, val |-> val, err |-> err]

\* LinuxI2CDevice::new(path, addr), once the open has succeeded
LinuxI2CDevice_new(addr) == [addr |-> addr]

\* the handle for the duration of one call
OnBus(i2cdev, chip, fault) ==
    [addr |-> i2cdev.addr, chip |-> chip, fail |-> fault.at, err |-> fault.err,
     log |-> << >>]

\* the handle between calls
OffBus(i2cdev) == [addr |-> i2cdev.addr]

\* I2CDevice::smbus_read_byte_data(register) -> Result<u8, Error>
smbus_read_byte_data(i2cdev, register) ==
    LET i == Len(i2cdev.log) + 1 IN
    IF i2cdev.fail = i
    THEN [dev |-> [i2cdev EXCEPT !.log = Append(@, Tx("r", register, 0, i2cdev.err))],
          r |-> Err(i2cdev.err)]
    ELSE LET value == i2cdev.chip[i][register] IN
         [dev |-> [i2cdev EXCEPT !.log = Append(@, Tx("r", register, value, ""))],
          r |-> Ok(value)]

\* I2CDevice::smbus_write_byte_data(register, value) -> Result<(), Error>
smbus_write_byte_data(i2cdev, register, value) ==
    LET i == Len(i2cdev.log) + 1 IN
    IF i2cdev.fail = i
    THEN [dev |-> [i2cdev EXCEPT !.log = Append(@, Tx("w", register, value, i2cdev.err))],
          r |-> Err(i2cdev.err)]
    ELSE [dev |-> [i2cdev EXCEPT !.log = Append(@, Tx("w", register, value, ""))],
          r |-> Ok(<< >>)]

IsErr(x) == x.r.tag = "Err"

\* `buf[k] = i2cdev.smbus_read_byte_data(r_k)?;` for each register in
\* turn: the bytes read, or the first error and nothing after it
RECURSIVE read_each_on(_, _)
read_each_on(i2cdev, registers) ==
    IF registers = << >> THEN [dev |-> i2cdev, r |-> Ok(<< >>)]
    ELSE LET a == smbus_read_byte_data(i2cdev, Head(registers))
             rest == read_each_on(a.dev, Tail(registers)) IN
         IF IsErr(a) THEN [dev |-> rest.dev, r |-> a.r]
         ELSE IF IsErr(rest) THEN rest
         ELSE [dev |-> rest.dev, r |-> Ok(<<a.r.v>> \o rest.r.v)]

RECURSIVE read_each(_, _)
read_each(i2cdev, registers) ==
    IF registers = << >> THEN [dev |-> i2cdev, r |-> Ok(<< >>)]
    ELSE LET a == smbus_read_byte_data(i2cdev, Head(registers)) IN
         IF IsErr(a) THEN a
         ELSE LET rest == read_each(a.dev, Tail(registers)) IN
              IF IsErr(rest) THEN rest
              ELSE [dev |-> rest.dev, r |-> Ok(<<a.r.v>> \o rest.r.v)]

\* `i2cdev.smbus_write_byte_data(r_k, v_k)?;` for each <<register, value>>
\* in turn, up to the first error
RECURSIVE write_each_on(_, _)
write_each_on(i2cdev, writes) ==
    IF writes = << >> THEN [dev |-> i2cdev, r |-> Ok(<< >>)]
    ELSE write_each_on(smbus_write_byte_data(i2cdev, Head(writes)[1], Head(writes)[2]).dev,
                       Tail(writes))

RECURSIVE write_each(_, _)
write_each(i2cdev, writes) ==
    IF writes = << >> THEN [dev |-> i2cdev, r |-> Ok(<< >>)]
    ELSE LET a == smbus_write_byte_data(i2cdev, Head(writes)[1], Head(writes)[2]) IN
         IF IsErr(a) THEN a ELSE write_each(a.dev, Tail(writes))

---------------------------------------------------------------------------
(* hts221.rs                                                               *)

\* Hts221::new, the init writes
Hts221_new_init_swapped(i2cdev) ==
    write_each(i2cdev, << <<hts221_REG_AV_CONF, \h1b>>, <<hts221_REG_CTRL1, \h87>> >>)

Hts221_new_init(i2cdev) ==
    write_each(i2cdev, << <<hts221_REG_CTRL1, \h87>>, <<hts221_REG_AV_CONF, \h1b>> >>)

\* Hts221::new, the calibration reads, in the order of the code
Hts221_new_cal(i2cdev) ==
    read_each(i2cdev,
              << hts221_REG_T0_C_8, hts221_REG_T1_T0,
                 hts221_REG_T1_C_8, hts221_REG_T1_T0,
                 hts221_REG_T0_OUT, hts221_REG_T0_OUT + 1,
                 hts221_REG_T1_OUT, hts221_REG_T1_OUT + 1,
                 hts221_REG_H0_H_2,
                 hts221_REG_H1_H_2,
                 hts221_REG_H0_T0_OUT, hts221_REG_H0_T0_OUT + 1,
                 hts221_REG_H1_T0_OUT, hts221_REG_H1_T0_OUT + 1 >>)

\* Hts221::new: t0 from T0_C_8 and T1_T0
Hts221_new_t0_unmasked(t0_c_8, t1_t0) ==
    F64_div(F64_from(read_i16(<<t0_c_8, t1_t0>>)), F64_from(8))

Hts221_new_t0(t0_c_8, t1_t0) ==
    F64_div(F64_from(read_i16(<<t0_c_8, BitAnd(t1_t0, \h03)>>)), F64_from(8))

\* Hts221::new: t1 from T1_C_8 and T1_T0
Hts221_new_t1(t1_c_8, t1_t0) ==
    F64_div(F64_from(read_i16(<<t1_c_8, Shr(BitAnd(t1_t0, \h0C), 2)>>)), F64_from(8))

\* Hts221::new: h0, h1 from H0_H_2, H1_H_2
Hts221_new_h(h_2) == F64_div(F64_from(h_2), F64_from(2))

\* Hts221::new: the linear model and the driver
Hts221_new_model_plus(i2cdev, t0, t1, t0_out, t1_out, h0, h1, h0_t0_out, h1_t0_out) ==
    LET temp_m == F64_div(F64_sub(t1, t0), F64_sub(t1_out, t0_out))
        temp_c == F64_add(t0, F64_mul(temp_m, t0_out))
        hum_m == F64_div(F64_sub(h1, h0), F64_sub(h1_t0_out, h0_t0_out))
        hum_c == F64_add(h0, F64_mul(hum_m, h0_t0_out))
    IN  [i2cdev |-> i2cdev, temp_m |-> temp_m, temp_c |-> temp_c,
         hum_m |-> hum_m, hum_c |-> hum_c]

Hts221_new_model(i2cdev, t0, t1, t0_out, t1_out, h0, h1, h0_t0_out, h1_t0_out) ==
    LET temp_m == F64_div(F64_sub(t1, t0), F64_sub(t1_out, t0_out))
        temp_c == F64_sub(t0, F64_mul(temp_m, t0_out))
        hum_m == F64_div(F64_sub(h1, h0), F64_sub(h1_t0_out, h0_t0_out))
        hum_c == F64_sub(h0, F64_mul(hum_m, h0_t0_out))
    IN  [i2cdev |-> i2cdev, temp_m |-> temp_m, temp_c |-> temp_c,
         hum_m |-> hum_m, hum_c |-> hum_c]

\* Hts221::new(i2cdev) -> Result<Hts221, Error>; dev is the device as the
\* constructor leaves it (moved into the driver, or dropped on an error)
Hts221_new(i2cdev) ==
    LET init == Hts221_new_init(i2cdev) IN
    IF IsErr(init) THEN init ELSE
    LET cal == Hts221_new_cal(init.dev) IN
    IF IsErr(cal) THEN cal ELSE
    LET buf == cal.r.v IN
    [dev |-> cal.dev,
     r |-> Ok(Hts221_new_model(cal.dev,
                               Hts221_new_t0(buf[1], buf[2]),
                               Hts221_new_t1(buf[3], buf[4]),
                               F64_from(read_i16(<<buf[5], buf[6]>>)),
                               F64_from(read_i16(<<buf[7], buf[8]>>)),
                               Hts221_new_h(buf[9]),
                               Hts221_new_h(buf[10]),
                               F64_from(read_i16(<<buf[11], buf[12]>>)),
                               F64_from(read_i16(<<buf[13], buf[14]>>))))]

\* the driver with its device as a bus call left it
WithDev(self, x) == [self |-> [self EXCEPT !.i2cdev = x.dev], r |-> x.r]

\* Hts221::status(&mut self) -> Result<u8, Error>
Hts221_status(self) ==
    WithDev(self, smbus_read_byte_data(self.i2cdev, hts221_REG_STATUS))

\* Hts221::get_relative_humidity(&mut self) -> Result<i16, Error>
Hts221_get_relative_humidity(self) ==
    LET buf == read_each(self.i2cdev,
                         <<hts221_REG_HUMIDITY_OUT_L, hts221_REG_HUMIDITY_OUT_H>>) IN
    IF IsErr(buf) THEN WithDev(self, buf)
    ELSE WithDev(self, [dev |-> buf.dev, r |-> Ok(read_i16(buf.r.v))])

\* Hts221::get_relative_humidity_percent(&mut self) -> Result<f64, Error>
Hts221_get_relative_humidity_percent(self) ==
    LET c == Hts221_get_relative_humidity(self) IN
    IF c.r.tag = "Err" THEN c ELSE
    [self |-> c.self,
     r |-> Ok(F64_add(F64_mul(F64_from(c.r.v), c.self.hum_m), c.self.hum_c))]

\* Hts221::get_temperature(&mut self) -> Result<i16, Error>
Hts221_get_temperature_high_first(self) ==
    LET buf == read_each(self.i2cdev, <<hts221_REG_TEMP_OUT_H, hts221_REG_TEMP_OUT_L>>) IN
    IF IsErr(buf) THEN WithDev(self, buf)
    ELSE WithDev(self, [dev |-> buf.dev, r |-> Ok(read_i16(<<buf.r.v[2], buf.r.v[1]>>))])

Hts221_get_temperature(self) ==
    LET buf == read_each(self.i2cdev, <<hts221_REG_TEMP_OUT_L, hts221_REG_TEMP_OUT_H>>) IN
    IF IsErr(buf) THEN WithDev(self, buf)
    ELSE WithDev(self, [dev |-> buf.dev, r |-> Ok(read_i16(buf.r.v))])

\* Hts221::get_temperature_celcius(&mut self) -> Result<f64, Error>
Hts221_get_temperature_celcius_caching(self) ==
    LET c == Hts221_get_temperature(self) IN
    IF c.r.tag = "Err" THEN c ELSE
    LET celcius == F64_add(F64_mul(F64_from(c.r.v), c.self.temp_m), c.self.temp_c) IN
    [self |-> [c.self EXCEPT !.temp_c = celcius], r |-> Ok(celcius)]

Hts221_get_temperature_celcius_gated(self) ==
    LET status == Hts221_status(self) IN
    IF status.r.tag = "Err" THEN status
    ELSE IF BitAnd(status.r.v, 1) = 0 THEN [self |-> status.self, r |-> Err("NotReady")]
    ELSE LET c == Hts221_get_temperature(status.self) IN
         IF c.r.tag = "Err" THEN c ELSE
         [self |-> c.self,
          r |-> Ok(F64_add(F64_mul(F64_from(c.r.v), c.self.temp_m), c.self.temp_c))]

Hts221_get_temperature_celcius(self) ==
    LET c == Hts221_get_temperature(self) IN
    IF c.r.tag = "Err" THEN c ELSE
    [self |-> c.self,
     r |-> Ok(F64_add(F64_mul(F64_from(c.r.v), c.self.temp_m), c.self.temp_c))]

---------------------------------------------------------------------------
(* lps25h.rs                                                               *)

\* Lps25h::new(i2cdev) -> Result<Lps25h, Error>
Lps25h_new(i2cdev) ==
    LET init == write_each(i2cdev,
                           << <<lps25h_REG_CTRL_REG_1, \hc4>>, <<lps25h_REG_RES_CONF, \h05>>,
                              <<lps25h_REG_FIFO_CTRL, \hc0>>, <<lps25h_REG_CTRL_REG_2, \h40>> >>) IN
    IF IsErr(init) THEN init
    ELSE [dev |-> init.dev, r |-> Ok([i2cdev |-> init.dev])]

\* Lps25h::status(&mut self) -> Result<u8, Error>
Lps25h_status(self) ==
    WithDev(self, smbus_read_byte_data(self.i2cdev, lps25h_REG_STATUS_REG))

\* Lps25h::get_temp(&mut self) -> Result<i16, Error>
Lps25h_get_temp(self) ==
    LET buf == read_each(self.i2cdev, <<lps25h_REG_TEMP_OUT_L, lps25h_REG_TEMP_OUT_H>>) IN
    IF IsErr(buf) THEN WithDev(self, buf)
    ELSE WithDev(self, [dev |-> buf.dev, r |-> Ok(read_i16(buf.r.v))])

\* Lps25h::get_temp_celcius(&mut self) -> Result<f64, Error>
Lps25h_get_temp_celcius_offset(self) ==
    LET c == Lps25h_get_temp(self) IN
    IF c.r.tag = "Err" THEN c ELSE
    [self |-> c.self,
     r |-> Ok(F64_add(F64_div(F64_from(c.r.v), F64_from(480)), F64_from(42)))]

Lps25h_get_temp_celcius(self) ==
    LET c == Lps25h_get_temp(self) IN
    IF c.r.tag = "Err" THEN c ELSE
    [self |-> c.self,
     r |-> Ok(F64_add(F64_div(F64_from(c.r.v), F64_from(480)), Ratio(425, 10)))]

\* Lps25h::get_pressure(&mut self) -> Result<u32, Error>; buf[3] stays 0
Lps25h_get_pressure(self) ==
    LET buf == read_each(self.i2cdev,
                         <<lps25h_REG_PRESS_OUT_XL, lps25h_REG_PRESS_OUT_L,
                           lps25h_REG_PRESS_OUT_H>>) IN
    IF IsErr(buf) THEN WithDev(self, buf)
    ELSE WithDev(self, [dev |-> buf.dev, r |-> Ok(read_u32(buf.r.v \o <<0>>))])

\* Lps25h::get_pressure_hpa(&mut self) -> Result<f64, Error>
Lps25h_get_pressure_hpa(self) ==
    LET c == Lps25h_get_pressure(self) IN
    IF c.r.tag = "Err" THEN c ELSE
    [self |-> c.self, r |-> Ok(F64_div(F64_from(c.r.v), F64_from(4096)))]

---------------------------------------------------------------------------
(* The unit types the facade returns                                       *)

\* measurements::Temperature::from_celsius
Temperature_from_celsius(celsius) == [unit |-> "celsius", value |-> celsius]

\* measurements::Pressure::from_hectopascals
Pressure_from_hectopascals(hpa) == [unit |-> "hectopascals", value |-> hpa]

\* rh.rs: RelativeHumidity::from_percent
RelativeHumidity_from_percent(pc) == [unit |-> "percent", value |-> pc]

---------------------------------------------------------------------------
(* lib.rs: the facade's sensor accessors                                   *)

\* SenseHat::get_temperature_from_pressure
SenseHat_get_temperature_from_pressure(self) ==
    LET status == Lps25h_status(self.pressure_chip) IN
    IF status.r.tag = "Err"
    THEN [self |-> [self EXCEPT !.pressure_chip = status.self],
          r |-> Err(From_LinuxI2CError(status.r.e))]
    ELSE IF BitAnd(status.r.v, 1) # 0
    THEN LET c == Lps25h_get_temp_celcius(status.self) IN
         [self |-> [self EXCEPT !.pressure_chip = c.self],
          r |-> IF c.r.tag = "Err" THEN Err(From_LinuxI2CError(c.r.e))
                ELSE Ok(Temperature_from_celsius(c.r.v))]
    ELSE [self |-> [self EXCEPT !.pressure_chip = status.self], r |-> Err(NotReady)]

\* SenseHat::get_pressure
SenseHat_get_pressure_retry(self) ==
    LET first == Lps25h_status(self.pressure_chip)
        status == IF first.r.tag = "Ok" /\ BitAnd(first.r.v, 2) = 0
                  THEN Lps25h_status(first.self) ELSE first IN
    IF status.r.tag = "Err"
    THEN [self |-> [self EXCEPT !.pressure_chip = status.self],
          r |-> Err(From_LinuxI2CError(status.r.e))]
    ELSE IF BitAnd(status.r.v, 2) # 0
    THEN LET c == Lps25h_get_pressure_hpa(status.self) IN
         [self |-> [self EXCEPT !.pressure_chip = c.self],
          r |-> IF c.r.tag = "Err" THEN Err(From_LinuxI2CError(c.r.e))
                ELSE Ok(Pressure_from_hectopascals(c.r.v))]
    ELSE [self |-> [self EXCEPT !.pressure_chip = status.self], r |-> Err(NotReady)]

SenseHat_get_pressure(self) ==
    LET status == Lps25h_status(self.pressure_chip) IN
    IF status.r.tag = "Err"
    THEN [self |-> [self EXCEPT !.pressure_chip = status.self],
          r |-> Err(From_LinuxI2CError(status.r.e))]
    ELSE IF BitAnd(status.r.v, 2) # 0
    THEN LET c == Lps25h_get_pressure_hpa(status.self) IN
         [self |-> [self EXCEPT !.pressure_chip = c.self],
          r |-> IF c.r.tag = "Err" THEN Err(From_LinuxI2CError(c.r.e))
                ELSE Ok(Pressure_from_hectopascals(c.r.v))]
    ELSE [self |-> [self EXCEPT !.pressure_chip = status.self], r |-> Err(NotReady)]

\* SenseHat::get_temperature_from_humidity
SenseHat_get_temperature_from_humidity(self) ==
    LET status == Hts221_status(self.humidity_chip) IN
    IF status.r.tag = "Err"
    THEN [self |-> [self EXCEPT !.humidity_chip = status.self],
          r |-> Err(From_LinuxI2CError(status.r.e))]
    ELSE IF BitAnd(status.r.v, 1) # 0
    THEN LET celcius == Hts221_get_temperature_celcius(status.self) IN
         [self |-> [self EXCEPT !.humidity_chip = celcius.self],
          r |-> IF celcius.r.tag = "Err" THEN Err(From_LinuxI2CError(celcius.r.e))
                ELSE Ok(Temperature_from_celsius(celcius.r.v))]
    ELSE [self |-> [self EXCEPT !.humidity_chip = status.self], r |-> Err(NotReady)]

\* SenseHat::get_humidity
SenseHat_get_humidity_bit0(self) ==
    LET status == Hts221_status(self.humidity_chip) IN
    IF status.r.tag = "Err"
    THEN [self |-> [self EXCEPT !.humidity_chip = status.self],
          r |-> Err(From_LinuxI2CError(status.r.e))]
    ELSE IF BitAnd(status.r.v, 1) # 0
    THEN LET percent == Hts221_get_relative_humidity_percent(status.self) IN
         [self |-> [self EXCEPT !.humidity_chip = percent.self],
          r |-> IF percent.r.tag = "Err" THEN Err(From_LinuxI2CError(percent.r.e))
                ELSE Ok(RelativeHumidity_from_percent(percent.r.v))]
    ELSE [self |-> [self EXCEPT !.humidity_chip = status.self], r |-> Err(NotReady)]

SenseHat_get_humidity(self) ==
    LET status == Hts221_status(self.humidity_chip) IN
    IF status.r.tag = "Err"
    THEN [self |-> [self EXCEPT !.humidity_chip = status.self],
          r |-> Err(From_LinuxI2CError(status.r.e))]
    ELSE IF BitAnd(status.r.v, 2) # 0
    THEN LET percent == Hts221_get_relative_humidity_percent(status.self) IN
         [self |-> [self EXCEPT !.humidity_chip = percent.self],
          r |-> IF percent.r.tag = "Err" THEN Err(From_LinuxI2CError(percent.r.e))
                ELSE Ok(RelativeHumidity_from_percent(percent.r.v))]
    ELSE [self |-> [self EXCEPT !.humidity_chip = status.self], r |-> Err(NotReady)]

---------------------------------------------------------------------------
(* lib.rs: PixelPosition.  A method returns its value (Returned) or        *)
(* panics (Panic).  overflow_checks is the build's setting: on, as in the  *)
(* dev and test profiles, a u8 addition that overflows panics; off, as in  *)
(* the release profile, it wraps.                                          *)

LED_HEIGHT == 8

LED_WIDTH == 8

\* enum Translation
Translation == {"Clip", "Wrap"}

Returned(v) == [tag |-> "Return", v |-> v]

Panic(msg) == [tag |-> "Panic", msg |-> msg]

\* a % b on i16 with b > 0: the remainder has the sign of a
i16_rem(a, b) == IF a >= 0 THEN a % b ELSE -((-a) % b)

\* `i as u8` for an i16: the low eight bits
as_u8(i) == i % 256

\* PixelPosition::new(x, y) -> Result<PixelPosition, String>
PixelPosition_new_inclusive(x, y) ==
    IF x > LED_WIDTH
    THEN Err([msg |-> "X value is larger than maximum", value |-> x, maximum |-> LED_WIDTH])
    ELSE IF y > LED_HEIGHT
    THEN Err([msg |-> "Y value is larger than maximum", value |-> y, maximum |-> LED_HEIGHT])
    ELSE Ok([x |-> x, y |-> y])

PixelPosition_new(x, y) ==
    IF x >= LED_WIDTH
    THEN Err([msg |-> "X value is larger than maximum", value |-> x, maximum |-> LED_WIDTH])
    ELSE IF y >= LED_HEIGHT
    THEN Err([msg |-> "Y value is larger than maximum", value |-> y, maximum |-> LED_HEIGHT])
    ELSE Ok([x |-> x, y |-> y])

\* PixelPosition::up(self, distance, mode) -> Self
PixelPosition_up_to_height(self, distance, mode, overflow_checks) ==
    IF mode = "Clip"
    THEN (IF self.y + distance >= LED_HEIGHT
          THEN Returned([self EXCEPT !.y = LED_HEIGHT])
          ELSE Returned([self EXCEPT !.y = self.y + distance]))
    ELSE Returned([self EXCEPT !.y = (self.y + distance) % LED_HEIGHT])

PixelPosition_up(self, distance, mode, overflow_checks) ==
    IF mode = "Clip"
    THEN (IF self.y + distance >= LED_HEIGHT
          THEN Returned([self EXCEPT !.y = LED_HEIGHT - 1])
          ELSE Returned([self EXCEPT !.y = self.y + distance]))
    ELSE IF self.y + distance > 255 /\ overflow_checks
    THEN Panic("attempt to add with overflow")
    ELSE Returned([self EXCEPT !.y = ((self.y + distance) % 256) % LED_HEIGHT])

\* PixelPosition::down(self, distance, mode) -> Self
PixelPosition_down(self, distance, mode) ==
    IF mode = "Clip"
    THEN (IF self.y - distance < 0
          THEN Returned([self EXCEPT !.y = 0])
          ELSE Returned([self EXCEPT !.y = self.y - distance]))
    ELSE Returned([self EXCEPT !.y = as_u8(i16_rem(self.y - distance, LED_HEIGHT))])

\* PixelPosition::right(self, distance, mode) -> Self
PixelPosition_right(self, distance, mode, overflow_checks) ==
    IF mode = "Clip"
    THEN (IF self.x + distance >= LED_WIDTH
          THEN Returned([self EXCEPT !.x = LED_WIDTH - 1])
          ELSE Returned([self EXCEPT !.x = self.x + distance]))
    ELSE IF self.x + distance > 255 /\ overflow_checks
    THEN Panic("attempt to add with overflow")
    ELSE Returned([self EXCEPT !.x = ((self.x + distance) % 256) % LED_WIDTH])

\* PixelPosition::left(self, distance, mode) -> Self
PixelPosition_left(self, distance, mode) ==
    IF mode = "Clip"
    THEN (IF self.x - distance < 0
          THEN Returned([self EXCEPT !.x = 0])
          ELSE Returned([self EXCEPT !.x = self.x - distance]))
    ELSE Returned([self EXCEPT !.x = as_u8(i16_rem(self.x - distance, LED_WIDTH))])

---------------------------------------------------------------------------
(* lib.rs: the LED image and its rotation                                  *)

LED_NUM_PIXELS == LED_HEIGHT * LED_WIDTH

Rotation == {"Normal", "Clockwise90", "Clockwise180", "Clockwise270"}

DrawMode == {"OutputNow", "BufferInternally"}

PixelColor_new(red, green, blue) == [red |-> red, green |-> green, blue |-> blue]

\* the image SenseHat::new starts with: every pixel blue
Image_blue == [i \in 0 .. LED_NUM_PIXELS - 1 |-> PixelColor_new(0, 0, 255)]

\* Image::rotate_mut(&mut self, rotation): the image afterwards, or the panic
Image_rotate_mut(image, rotation) ==
    IF rotation = "Normal" THEN Returned(image)
    ELSE Panic("not yet implemented")

\* Image::rotate_copy(&self, rotation) -> Image
Image_rotate_copy(image, rotation) == Image_rotate_mut(image, rotation)

\* FrameLine::from_pixels: one RGB565 word for each pixel
FrameLine_from_pixels(pixels) ==
    [i \in 0 .. LED_NUM_PIXELS - 1 |->
        Shr(pixels[i].red, 3) * 2048 + Shr(pixels[i].green, 2) * 32 + Shr(pixels[i].blue, 3)]

\* Screen::write_frame: the frame the framebuffer shows afterwards
Screen_write_frame(screen, frame) == [screen EXCEPT !.frame = frame]

\* SenseHat::redraw(&mut self)
SenseHat_redraw(self) ==
    LET image == Image_rotate_copy(self.image, self.rotation) IN
    IF image.tag = "Panic"
    THEN [self |-> self, r |-> image]
    ELSE [self |-> [self EXCEPT !.screen =
                        Screen_write_frame(@, FrameLine_from_pixels(image.v))],
          r |-> Returned(<< >>)]

\* SenseHat::set_rotation(&mut self, rotation, redraw)
SenseHat_set_rotation(self, rotation, redraw) ==
    LET assigned == [self EXCEPT !.rotation = rotation]
        image == Image_rotate_mut(assigned.image, rotation)
    IN  IF image.tag = "Panic"
        THEN [self |-> assigned, r |-> image]
        ELSE IF redraw = "OutputNow"
        THEN SenseHat_redraw([assigned EXCEPT !.image = image.v])
        ELSE [self |-> [assigned EXCEPT !.image = image.v], r |-> Returned(<< >>)]

\* SenseHat::get_rotation(&self) -> Rotation
SenseHat_get_rotation(self) == Returned(self.rotation)

\* SenseHat::get_pixels(&self) -> Image
SenseHat_get_pixels(self) == Returned(self.image)

\* SenseHat::clear(&mut self, color, redraw) -> SenseHatResult<()>
SenseHat_clear(self, color, redraw) ==
    LET filled == [self EXCEPT !.image = [i \in 0 .. LED_NUM_PIXELS - 1 |-> color]] IN
    IF redraw = "OutputNow"
    THEN LET drawn == SenseHat_redraw(filled) IN
         IF drawn.r.tag = "Panic" THEN drawn
         ELSE [self |-> drawn.self, r |-> Returned(Ok(<< >>))]
    ELSE [self |-> filled, r |-> Returned(Ok(<< >>))]

---------------------------------------------------------------------------
(* The IMU.  The facade sees it as a capability with three kinds of call:  *)
(* choosing the sensors to fuse, imu_read() -> bool (is there a new        *)
(* sample?) and get_imu_data() -> orientation or error.  What the last two *)
(* answer is the environment's choice, imu; lsm9ds1_dummy.rs is the IMU    *)
(* that always answers false and Err(RTIMULibError).  calls lists the      *)
(* calls one facade operation made.                                        *)

Lsm9ds1_new == [phantom |-> "PhantomData"]

Polling(chip, imu) == [phantom |-> chip.phantom, imu |-> imu, calls |-> << >>]

Polled(chip) == [phantom |-> chip.phantom]

Lsm9ds1_set_fusion(self) == [self EXCEPT !.calls = Append(@, "set_fusion")]

Lsm9ds1_set_compass_only(self) == [self EXCEPT !.calls = Append(@, "set_compass_only")]

Lsm9ds1_set_gyro_only(self) == [self EXCEPT !.calls = Append(@, "set_gyro_only")]

Lsm9ds1_set_accel_only(self) == [self EXCEPT !.calls = Append(@, "set_accel_only")]

Lsm9ds1_imu_read(self) ==
    [self |-> [self EXCEPT !.calls = Append(@, "imu_read")], r |-> self.imu.read]

Lsm9ds1_get_imu_data(self) ==
    [self |-> [self EXCEPT !.calls = Append(@, "get_imu_data")], r |-> self.imu.data]

WithImu(self, chip) == [self EXCEPT !.accelerometer_chip = chip]

\* SenseHat::get_orientation(&mut self) -> SenseHatResult<Orientation>
SenseHat_get_orientation(self) ==
    LET read == Lsm9ds1_imu_read(Lsm9ds1_set_fusion(self.accelerometer_chip)) IN
    IF read.r
    THEN LET data == Lsm9ds1_get_imu_data(read.self) IN
         IF data.r.tag = "Err"
         THEN [self |-> WithImu(self, data.self), r |-> Err(LSM9DS1Error(data.r.e))]
         ELSE [self |-> [WithImu(self, data.self) EXCEPT !.orientation = data.r.v],
               r |-> Ok(data.r.v)]
    ELSE [self |-> WithImu(self, read.self), r |-> Ok(self.orientation)]

\* SenseHat::get_compass(&mut self) -> SenseHatResult<Angle>
SenseHat_get_compass_caching(self) ==
    LET read == Lsm9ds1_imu_read(Lsm9ds1_set_compass_only(self.accelerometer_chip)) IN
    IF read.r
    THEN LET data == Lsm9ds1_get_imu_data(read.self) IN
         IF data.r.tag = "Err"
         THEN [self |-> WithImu(self, data.self), r |-> Err(LSM9DS1Error(data.r.e))]
         ELSE [self |-> [WithImu(self, data.self) EXCEPT !.orientation = data.r.v],
               r |-> Ok(data.r.v.yaw)]
    ELSE [self |-> WithImu(self, read.self), r |-> Err(NotReady)]

SenseHat_get_compass(self) ==
    LET read == Lsm9ds1_imu_read(Lsm9ds1_set_compass_only(self.accelerometer_chip)) IN
    IF read.r
    THEN LET data == Lsm9ds1_get_imu_data(read.self) IN
         IF data.r.tag = "Err"
         THEN [self |-> WithImu(self, data.self), r |-> Err(LSM9DS1Error(data.r.e))]
         ELSE [self |-> WithImu(self, data.self), r |-> Ok(data.r.v.yaw)]
    ELSE [self |-> WithImu(self, read.self), r |-> Err(NotReady)]

\* SenseHat::get_gyro(&mut self) -> SenseHatResult<Orientation>
SenseHat_get_gyro(self) ==
    LET read == Lsm9ds1_imu_read(Lsm9ds1_set_gyro_only(self.accelerometer_chip)) IN
    IF read.r
    THEN LET data == Lsm9ds1_get_imu_data(read.self) IN
         IF data.r.tag = "Err"
         THEN [self |-> WithImu(self, data.self), r |-> Err(LSM9DS1Error(data.r.e))]
         ELSE [self |-> WithImu(self, data.self), r |-> Ok(data.r.v)]
    ELSE [self |-> WithImu(self, read.self), r |-> Err(NotReady)]

\* SenseHat::get_accel(&mut self) -> SenseHatResult<Orientation>
SenseHat_get_accel(self) ==
    LET read == Lsm9ds1_imu_read(Lsm9ds1_set_accel_only(self.accelerometer_chip)) IN
    IF read.r
    THEN LET data == Lsm9ds1_get_imu_data(read.self) IN
         IF data.r.tag = "Err"
         THEN [self |-> WithImu(self, data.self), r |-> Err(LSM9DS1Error(data.r.e))]
         ELSE [self |-> WithImu(self, data.self), r |-> Ok(data.r.v)]
    ELSE [self |-> WithImu(self, read.self), r |-> Err(NotReady)]

---------------------------------------------------------------------------
(* lib.rs: SenseHat::new.  world says which of the steps outside the      *)
(* drivers succeed: opening the two I2C devices, creating the IMU and     *)
(* opening the framebuffer.  steps lists the steps attempted, in order.   *)

SenseHat_new(world) ==
    IF world.open5f.tag = "Err"
    THEN [r |-> Err(From_LinuxI2CError(world.open5f.e)), steps |-> <<"open5f">>,
          hlog |-> << >>, plog |-> << >>]
    ELSE
    LET h == Hts221_new(OnBus(LinuxI2CDevice_new(\h5f), world.hchip, world.hfault)) IN
    IF IsErr(h)
    THEN [r |-> Err(From_LinuxI2CError(h.r.e)), steps |-> <<"open5f", "Hts221">>,
          hlog |-> h.dev.log, plog |-> << >>]
    ELSE IF world.open5c.tag = "Err"
    THEN [r |-> Err(From_LinuxI2CError(world.open5c.e)),
          steps |-> <<"open5f", "Hts221", "open5c">>,
          hlog |-> h.dev.log, plog |-> << >>]
    ELSE
    LET p == Lps25h_new(OnBus(LinuxI2CDevice_new(\h5c), world.pchip, world.pfault)) IN
    IF IsErr(p)
    THEN [r |-> Err(From_LinuxI2CError(p.r.e)),
          steps |-> <<"open5f", "Hts221", "open5c", "Lps25h">>,
          hlog |-> h.dev.log, plog |-> p.dev.log]
    ELSE IF world.imu.tag = "Err"
    THEN [r |-> Err(LSM9DS1Error(world.imu.e)),
          steps |-> <<"open5f", "Hts221", "open5c", "Lps25h", "Lsm9ds1">>,
          hlog |-> h.dev.log, plog |-> p.dev.log]
    ELSE IF world.screen.tag = "Err"
    THEN [r |-> Err(FramebufferError(world.screen.e)),
          steps |-> <<"open5f", "Hts221", "open5c", "Lps25h", "Lsm9ds1", "Screen">>,
          hlog |-> h.dev.log, plog |-> p.dev.log]
    ELSE [r |-> Ok([humidity_chip |-> [h.r.v EXCEPT !.i2cdev = OffBus(@)],
                    pressure_chip |-> [p.r.v EXCEPT !.i2cdev = OffBus(@)],
                    accelerometer_chip |-> Lsm9ds1_new,
                    orientation |-> [roll |-> 0, pitch |-> 0, yaw |-> 0],
                    rotation |-> "Normal",
                    image |-> Image_blue,
                    screen |-> [frame |-> << >>]]),
          steps |-> <<"open5f", "Hts221", "open5c", "Lps25h", "Lsm9ds1", "Screen">>,
          hlog |-> h.dev.log, plog |-> p.dev.log]

---------------------------------------------------------------------------
(* The environment: what the chips hold and where the bus fails            *)

\* the most transactions after which a call's sample is replaced or a
\* transaction fails: an accessor makes at most 4, Hts221::new makes 16
MaxTx == 4

MaxNewTx == 16

\* room for a call that runs on after an error
ChipLen == 24

\* status bytes: every combination of bits 0 and 1, and both clear and
\* both set with the other six bits set
StatusBytes == {0, 1, 2, 3, \hFC, \hFF}

\* a register file from <<register, byte>> pairs
File(pairs) ==
    [r \in {q[1] : q \in pairs} |-> (CHOOSE q \in pairs : q[1] = r)[2]]

\* HTS221 output registers: humidity 1000 with temperature 500, humidity
\* -32768 with temperature -1, humidity 255 with temperature 256
HtsOut ==
    { <<\hE8, \h03, \hF4, \h01>>, <<\h00, \h80, \hFF, \hFF>>, <<\hFF, \h00, \h00, \h01>> }

HtsSample(status, out) ==
    File({ <<hts221_REG_STATUS, status>>,
           <<hts221_REG_HUMIDITY_OUT_L, out[1]>>, <<hts221_REG_HUMIDITY_OUT_H, out[2]>>,
           <<hts221_REG_TEMP_OUT_L, out[3]>>, <<hts221_REG_TEMP_OUT_H, out[4]>> })

HtsSamples == { HtsSample(s, o) : s \in StatusBytes, o \in HtsOut }

\* LPS25H output registers: pressure 4096000 with temperature 0, pressure
\* 2^24 - 1 with temperature -1, pressure 1 with temperature -32768
LpsOut ==
    { <<\h00, \h80, \h3E, \h00, \h00>>, <<\hFF, \hFF, \hFF, \hFF, \hFF>>,
      <<\h01, \h00, \h00, \h00, \h80>> }

LpsSample(status, out) ==
    File({ <<lps25h_REG_STATUS_REG, status>>,
           <<lps25h_REG_PRESS_OUT_XL, out[1]>>, <<lps25h_REG_PRESS_OUT_L, out[2]>>,
           <<lps25h_REG_PRESS_OUT_H, out[3]>>,
           <<lps25h_REG_TEMP_OUT_L, out[4]>>, <<lps25h_REG_TEMP_OUT_H, out[5]>> })

LpsSamples == { LpsSample(s, o) : s \in StatusBytes, o \in LpsOut }

\* HTS221 calibration registers
Rom(t0_c_8, t1_c_8, t1_t0, t0_out, t1_out, h0, h1, h0_t0_out, h1_t0_out) ==
    File({ <<hts221_REG_T0_C_8, t0_c_8>>, <<hts221_REG_T1_C_8, t1_c_8>>,
           <<hts221_REG_T1_T0, t1_t0>>,
           <<hts221_REG_T0_OUT, t0_out[1]>>, <<hts221_REG_T0_OUT + 1, t0_out[2]>>,
           <<hts221_REG_T1_OUT, t1_out[1]>>, <<hts221_REG_T1_OUT + 1, t1_out[2]>>,
           <<hts221_REG_H0_H_2, h0>>, <<hts221_REG_H1_H_2, h1>>,
           <<hts221_REG_H0_T0_OUT, h0_t0_out[1]>>, <<hts221_REG_H0_T0_OUT + 1, h0_t0_out[2]>>,
           <<hts221_REG_H1_T0_OUT, h1_t0_out[1]>>, <<hts221_REG_H1_T0_OUT + 1, h1_t0_out[2]>> })

\* T0 = 0 C at 0, T1 = 1 C at 1000, H0 = 20 % at 0, H1 = 50 % at 2000
RomScenario ==
    Rom(\h00, \h08, \h00, <<\h00, \h00>>, <<\hE8, \h03>>, \h28, \h64,
        <<\h00, \h00>>, <<\hD0, \h07>>)

\* T0 code 672 at -4, T1 code 272 at 300, H0 = 30 % at 4000, H1 = 70 % at
\* -12000; the unused bits of T1_T0 are set
RomHighBits ==
    Rom(\hA0, \h10, \hC6, <<\hFC, \hFF>>, <<\h2C, \h01>>, \h3C, \h8C,
        <<\hA0, \h0F>>, <<\h20, \hD1>>)

\* T1_OUT = T0_OUT and H1_T0_OUT = H0_T0_OUT
RomDegenerate ==
    Rom(\h10, \hF0, \h04, <<\h10, \h00>>, <<\h10, \h00>>, \h28, \h64,
        <<\h00, \h01>>, <<\h00, \h01>>)

CalROMs == { RomScenario, RomHighBits, RomDegenerate }

HtsFile(r, sample) == r @@ sample

\* the chip during a call: `before` for the first swapAt transactions,
\* then `after`
Chip(before, after, swapAt) ==
    [i \in 1..ChipLen |-> IF i <= swapAt THEN before ELSE after]

NoFault == [at |-> 0, err |-> ""]

Faults(n) == {NoFault} \cup [at : 1..n, err : LinuxI2CError]

Opens == {Ok(<< >>)} \cup { Err(e) : e \in LinuxI2CError }

\* the chip nobody talks to during a call
IdleHts == Chip(HtsFile(RomScenario, HtsSample(0, <<0, 0, 0, 0>>)),
                HtsFile(RomScenario, HtsSample(0, <<0, 0, 0, 0>>)), 0)

IdleLps == Chip(LpsSample(0, <<0, 0, 0, 0, 0>>), LpsSample(0, <<0, 0, 0, 0, 0>>), 0)

---------------------------------------------------------------------------
(* State.  last is what the caller observes of the call just made: its    *)
(* name, its result, the bus traffic on each chip (hlog, plog) and the    *)
(* status byte each chip held at each of those transactions (hstat,       *)
(* pstat); for SenseHat::new also the steps it attempted and how the      *)
(* steps outside the drivers stood to end (outer: opening 0x5f, opening   *)
(* 0x5c, the IMU, the screen).  A call starts once the caller has taken the previous result   *)
(* (Return); no call reads last, so this leaves out no behaviour.         *)

Idle ==
    [op |-> "idle", res |-> Ok(<< >>), hlog |-> << >>, plog |-> << >>,
     hstat |-> << >>, pstat |-> << >>, steps |-> << >>, outer |-> << >>]

Plug(self, hchip, hfault, pchip, pfault) ==
    [self EXCEPT !.humidity_chip.i2cdev = OnBus(@, hchip, hfault),
                 !.pressure_chip.i2cdev = OnBus(@, pchip, pfault)]

Unplug(self) ==
    [self EXCEPT !.humidity_chip.i2cdev = OffBus(@),
                 !.pressure_chip.i2cdev = OffBus(@)]

StatusSeen(i2cdev, register) ==
    [i \in 1..Len(i2cdev.log) |-> i2cdev.chip[i][register]]

Observe(op, out) ==
    [op |-> op, res |-> out.r,
     hlog |-> out.self.humidity_chip.i2cdev.log,
     plog |-> out.self.pressure_chip.i2cdev.log,
     hstat |-> StatusSeen(out.self.humidity_chip.i2cdev, hts221_REG_STATUS),
     pstat |-> StatusSeen(out.self.pressure_chip.i2cdev, lps25h_REG_STATUS_REG),
     steps |-> << >>, outer |-> << >>]

\* a call on the facade's humidity driver / pressure driver
OnHumidity(self, out) == [self |-> [self EXCEPT !.humidity_chip = out.self], r |-> out.r]

OnPressure(self, out) == [self |-> [self EXCEPT !.pressure_chip = out.self], r |-> out.r]

Init ==
    /\ rom \in CalROMs
    /\ hat = << >>
    /\ last = Idle

\* the caller takes the result
Return ==
    /\ last.op # "idle"
    /\ last' = Idle
    /\ UNCHANGED <<rom, hat>>

Worlds ==
    [open5f : Opens, hchip : {Chip(HtsFile(rom, HtsSample(0, <<0, 0, 0, 0>>)),
                                   HtsFile(rom, HtsSample(0, <<0, 0, 0, 0>>)), 0)},
     hfault : Faults(MaxNewTx),
     open5c : Opens, pchip : {IdleLps}, pfault : Faults(MaxTx),
     imu : {Ok(<< >>), Err("RTIMULibError")},
     screen : {Ok(<< >>), Err("FramebufferError")}]

New ==
    /\ hat = << >>
    /\ last.op = "idle"
    /\ \E world \in Worlds :
         LET out == SenseHat_new(world) IN
         /\ hat' = IF out.r.tag = "Ok" THEN <<out.r.v>> ELSE << >>
         /\ last' = [op |-> "new", res |-> out.r, hlog |-> out.hlog, plog |-> out.plog,
                     hstat |-> << >>, pstat |-> << >>, steps |-> out.steps,
                     outer |-> <<world.open5f, world.open5c, world.imu, world.screen>>]
    /\ UNCHANGED rom

\* what the environment decides during a call on one chip
HtsEnvs ==
    [before : HtsSamples, after : HtsSamples, swapAt : 0..MaxTx, fault : Faults(MaxTx)]

LpsEnvs ==
    [before : LpsSamples, after : LpsSamples, swapAt : 0..MaxTx, fault : Faults(MaxTx)]

\* the handle with its two devices on the bus for one call
HtsSelf(env) ==
    Plug(hat[1], Chip(HtsFile(rom, env.before), HtsFile(rom, env.after), env.swapAt),
         env.fault, IdleLps, NoFault)

LpsSelf(env) ==
    Plug(hat[1], IdleHts, NoFault, Chip(env.before, env.after, env.swapAt), env.fault)

Called(op, out) ==
    /\ last' = Observe(op, out)
    /\ hat' = <<Unplug(out.self)>>

GetTemperatureFromPressure ==
    /\ hat # << >>
    /\ last.op = "idle"
    /\ \E env \in LpsEnvs :
         Called("get_temperature_from_pressure", SenseHat_get_temperature_from_pressure(LpsSelf(env)))
    /\ UNCHANGED rom

GetPressure ==
    /\ hat # << >>
    /\ last.op = "idle"
    /\ \E env \in LpsEnvs :
         Called("get_pressure", SenseHat_get_pressure(LpsSelf(env)))
    /\ UNCHANGED rom

GetTemperatureFromHumidity ==
    /\ hat # << >>
    /\ last.op = "idle"
    /\ \E env \in HtsEnvs :
         Called("get_temperature_from_humidity", SenseHat_get_temperature_from_humidity(HtsSelf(env)))
    /\ UNCHANGED rom

GetHumidity ==
    /\ hat # << >>
    /\ last.op = "idle"
    /\ \E env \in HtsEnvs :
         Called("get_humidity", SenseHat_get_humidity(HtsSelf(env)))
    /\ UNCHANGED rom

\* the drivers' own operations, called on the handle's drivers
HtsStatus ==
    /\ hat # << >>
    /\ last.op = "idle"
    /\ \E env \in HtsEnvs :
         Called("Hts221::status", OnHumidity(HtsSelf(env),
                  Hts221_status(HtsSelf(env).humidity_chip)))
    /\ UNCHANGED rom

HtsGetRelativeHumidity ==
    /\ hat # << >>
    /\ last.op = "idle"
    /\ \E env \in HtsEnvs :
         Called("Hts221::get_relative_humidity", OnHumidity(HtsSelf(env),
                  Hts221_get_relative_humidity(HtsSelf(env).humidity_chip)))
    /\ UNCHANGED rom

HtsGetRelativeHumidityPercent ==
    /\ hat # << >>
    /\ last.op = "idle"
    /\ \E env \in HtsEnvs :
         Called("Hts221::get_relative_humidity_percent", OnHumidity(HtsSelf(env),
                  Hts221_get_relative_humidity_percent(HtsSelf(env).humidity_chip)))
    /\ UNCHANGED rom

HtsGetTemperature ==
    /\ hat # << >>
    /\ last.op = "idle"
    /\ \E env \in HtsEnvs :
         Called("Hts221::get_temperature", OnHumidity(HtsSelf(env),
                  Hts221_get_temperature(HtsSelf(env).humidity_chip)))
    /\ UNCHANGED rom

HtsGetTemperatureCelcius ==
    /\ hat # << >>
    /\ last.op = "idle"
    /\ \E env \in HtsEnvs :
         Called("Hts221::get_temperature_celcius", OnHumidity(HtsSelf(env),
                  Hts221_get_temperature_celcius(HtsSelf(env).humidity_chip)))
    /\ UNCHANGED rom

LpsStatus ==
    /\ hat # << >>
    /\ last.op = "idle"
    /\ \E env \in LpsEnvs :
         Called("Lps25h::status", OnPressure(LpsSelf(env),
                  Lps25h_status(LpsSelf(env).pressure_chip)))
    /\ UNCHANGED rom

LpsGetTemp ==
    /\ hat # << >>
    /\ last.op = "idle"
    /\ \E env \in LpsEnvs :
         Called("Lps25h::get_temp", OnPressure(LpsSelf(env),
                  Lps25h_get_temp(LpsSelf(env).pressure_chip)))
    /\ UNCHANGED rom

LpsGetTempCelcius ==
    /\ hat # << >>
    /\ last.op = "idle"
    /\ \E env \in LpsEnvs :
         Called("Lps25h::get_temp_celcius", OnPressure(LpsSelf(env),
                  Lps25h_get_temp_celcius(LpsSelf(env).pressure_chip)))
    /\ UNCHANGED rom

LpsGetPressure ==
    /\ hat # << >>
    /\ last.op = "idle"
    /\ \E env \in LpsEnvs :
         Called("Lps25h::get_pressure", OnPressure(LpsSelf(env),
                  Lps25h_get_pressure(LpsSelf(env).pressure_chip)))
    /\ UNCHANGED rom

LpsGetPressureHpa ==
    /\ hat # << >>
    /\ last.op = "idle"
    /\ \E env \in LpsEnvs :
         Called("Lps25h::get_pressure_hpa", OnPressure(LpsSelf(env),
                  Lps25h_get_pressure_hpa(LpsSelf(env).pressure_chip)))
    /\ UNCHANGED rom

Next ==
    \/ New
    \/ Return
    \/ GetTemperatureFromPressure
    \/ GetPressure
    \/ GetTemperatureFromHumidity
    \/ GetHumidity
    \/ HtsStatus
    \/ HtsGetRelativeHumidity
    \/ HtsGetRelativeHumidityPercent
    \/ HtsGetTemperature
    \/ HtsGetTemperatureCelcius
    \/ LpsStatus
    \/ LpsGetTemp
    \/ LpsGetTempCelcius
    \/ LpsGetPressure
    \/ LpsGetPressureHpa

Spec == Init /\ [][Next]_vars

---------------------------------------------------------------------------
(* Specifications that apply one operation to every input of a range.     *)
(* They start from the handle as a successful SenseHat::new leaves it.    *)

AllWell(r) ==
    [open5f |-> Ok(<< >>),
     hchip |-> Chip(HtsFile(r, HtsSample(0, <<0, 0, 0, 0>>)),
                    HtsFile(r, HtsSample(0, <<0, 0, 0, 0>>)), 0),
     hfault |-> NoFault, open5c |-> Ok(<< >>), pchip |-> IdleLps, pfault |-> NoFault,
     imu |-> Ok(<< >>), screen |-> Ok(<< >>)]

\* the handle SenseHat::new returns when every step succeeds
Built(r) == SenseHat_new(AllWell(r)).r.v

InitScenario ==
    /\ rom = RomScenario
    /\ hat = <<Built(rom)>>
    /\ last = Idle

\* the same for each calibration with distinct calibration points
InitBuilt ==
    /\ rom \in {RomScenario, RomHighBits}
    /\ hat = <<Built(rom)>>
    /\ last = Idle

\* the handle with the humidity chip holding one sample for the whole call
HtsHolding(out) ==
    Plug(hat[1], Chip(HtsFile(rom, HtsSample(\h03, out)),
                      HtsFile(rom, HtsSample(\h03, out)), 0), NoFault, IdleLps, NoFault)

LpsHolding(out) ==
    Plug(hat[1], IdleHts, NoFault,
         Chip(LpsSample(\h03, out), LpsSample(\h03, out), 0), NoFault)

\* the two-byte sample reads on every byte pair
ReadTemperature ==
    /\ last.op = "idle"
    /\ \E lo \in U8, hi \in U8 :
         Called("Hts221::get_temperature",
                OnHumidity(HtsHolding(<<0, 0, lo, hi>>),
                           Hts221_get_temperature(HtsHolding(<<0, 0, lo, hi>>).humidity_chip)))
    /\ UNCHANGED rom

ReadRelativeHumidity ==
    /\ last.op = "idle"
    /\ \E lo \in U8, hi \in U8 :
         Called("Hts221::get_relative_humidity",
                OnHumidity(HtsHolding(<<lo, hi, 0, 0>>),
                           Hts221_get_relative_humidity(HtsHolding(<<lo, hi, 0, 0>>).humidity_chip)))
    /\ UNCHANGED rom

ReadTemp ==
    /\ last.op = "idle"
    /\ \E lo \in U8, hi \in U8 :
         Called("Lps25h::get_temp",
                OnPressure(LpsHolding(<<0, 0, 0, lo, hi>>),
                           Lps25h_get_temp(LpsHolding(<<0, 0, 0, lo, hi>>).pressure_chip)))
    /\ UNCHANGED rom

NextRead == ReadTemperature \/ ReadRelativeHumidity \/ ReadTemp

SpecRead == InitScenario /\ [][NextRead]_vars

\* bytes at the edges of the u8, i8 and two-bit ranges, and 0x3E
EdgeBytes == {\h00, \h01, \h3E, \h7F, \h80, \hFF}

\* the three-byte pressure read and its conversion
ReadPressure ==
    /\ last.op = "idle"
    /\ \E xl \in EdgeBytes, l \in U8, h \in EdgeBytes :
         Called("Lps25h::get_pressure",
                OnPressure(LpsHolding(<<xl, l, h, 0, 0>>),
                           Lps25h_get_pressure(LpsHolding(<<xl, l, h, 0, 0>>).pressure_chip)))
    /\ UNCHANGED rom

ReadPressureHpa ==
    /\ last.op = "idle"
    /\ \E xl \in EdgeBytes, l \in U8, h \in EdgeBytes :
         Called("Lps25h::get_pressure_hpa",
                OnPressure(LpsHolding(<<xl, l, h, 0, 0>>),
                           Lps25h_get_pressure_hpa(LpsHolding(<<xl, l, h, 0, 0>>).pressure_chip)))
    /\ UNCHANGED rom

NextPressure == ReadPressure \/ ReadPressureHpa

SpecPressure == InitScenario /\ [][NextPressure]_vars

\* the calibrated reads on every raw code
ReadTemperatureCelcius ==
    /\ last.op = "idle"
    /\ \E lo \in U8, hi \in U8 :
         Called("Hts221::get_temperature_celcius",
                OnHumidity(HtsHolding(<<0, 0, lo, hi>>),
                           Hts221_get_temperature_celcius(HtsHolding(<<0, 0, lo, hi>>).humidity_chip)))
    /\ UNCHANGED rom

ReadRelativeHumidityPercent ==
    /\ last.op = "idle"
    /\ \E lo \in U8, hi \in U8 :
         Called("Hts221::get_relative_humidity_percent",
                OnHumidity(HtsHolding(<<lo, hi, 0, 0>>),
                           Hts221_get_relative_humidity_percent(HtsHolding(<<lo, hi, 0, 0>>).humidity_chip)))
    /\ UNCHANGED rom

NextCalibrated == ReadTemperatureCelcius \/ ReadRelativeHumidityPercent

SpecCalibrated == InitBuilt /\ [][NextCalibrated]_vars

\* the pressure chip's temperature conversion on every raw code
ReadTempCelcius ==
    /\ last.op = "idle"
    /\ \E lo \in U8, hi \in U8 :
         Called("Lps25h::get_temp_celcius",
                OnPressure(LpsHolding(<<0, 0, 0, lo, hi>>),
                           Lps25h_get_temp_celcius(LpsHolding(<<0, 0, 0, lo, hi>>).pressure_chip)))
    /\ UNCHANGED rom

NextTempCelcius == ReadTempCelcius

SpecTempCelcius == InitBuilt /\ [][NextTempCelcius]_vars

\* the facade's accessors on every status byte, each sample behind it
HtsShowing(status, out) ==
    Plug(hat[1], Chip(HtsFile(rom, HtsSample(status, out)),
                      HtsFile(rom, HtsSample(status, out)), 0), NoFault, IdleLps, NoFault)

LpsShowing(status, out) ==
    Plug(hat[1], IdleHts, NoFault,
         Chip(LpsSample(status, out), LpsSample(status, out), 0), NoFault)

StatusGetTemperatureFromPressure ==
    /\ last.op = "idle"
    /\ \E status \in U8, out \in LpsOut :
         Called("get_temperature_from_pressure",
                SenseHat_get_temperature_from_pressure(LpsShowing(status, out)))
    /\ UNCHANGED rom

StatusGetPressure ==
    /\ last.op = "idle"
    /\ \E status \in U8, out \in LpsOut :
         Called("get_pressure", SenseHat_get_pressure(LpsShowing(status, out)))
    /\ UNCHANGED rom

StatusGetTemperatureFromHumidity ==
    /\ last.op = "idle"
    /\ \E status \in U8, out \in HtsOut :
         Called("get_temperature_from_humidity",
                SenseHat_get_temperature_from_humidity(HtsShowing(status, out)))
    /\ UNCHANGED rom

StatusGetHumidity ==
    /\ last.op = "idle"
    /\ \E status \in U8, out \in HtsOut :
         Called("get_humidity", SenseHat_get_humidity(HtsShowing(status, out)))
    /\ UNCHANGED rom

NextStatus ==
    \/ StatusGetTemperatureFromPressure
    \/ StatusGetPressure
    \/ StatusGetTemperatureFromHumidity
    \/ StatusGetHumidity

SpecStatus == InitBuilt /\ [][NextStatus]_vars

\* construction on a range of calibration registers: every T1_T0 byte with
\* edge values of T0_C_8 and T1_C_8, the calibration points at 0 and 1000
InitRoms ==
    /\ rom \in { Rom(t0_c_8, t1_c_8, t1_t0, <<\h00, \h00>>, <<\hE8, \h03>>, \h28, \h64,
                      <<\h00, \h00>>, <<\hD0, \h07>>) :
                 t0_c_8 \in EdgeBytes, t1_c_8 \in EdgeBytes, t1_t0 \in U8 }
    /\ hat = << >>
    /\ last = Idle

\* SenseHat::new when every step succeeds
Construct ==
    /\ hat = << >>
    /\ last.op = "idle"
    /\ LET world == AllWell(rom)
           out == SenseHat_new(world) IN
         /\ hat' = IF out.r.tag = "Ok" THEN <<out.r.v>> ELSE << >>
         /\ last' = [op |-> "new", res |-> out.r, hlog |-> out.hlog, plog |-> out.plog,
                     hstat |-> << >>, pstat |-> << >>, steps |-> out.steps,
                     outer |-> <<world.open5f, world.open5c, world.imu, world.screen>>]
    /\ UNCHANGED rom

NextConstruct == Construct

SpecConstruct == InitRoms /\ [][NextConstruct]_vars

\* construction and the humidity chip's gated reads on a range of
\* calibrations, the calibration points coinciding or not
TOuts == { <<\h00, \h00>>, <<\hE8, \h03>>, <<\hFF, \hFF>> }

HOuts == { <<\h00, \h00>>, <<\hD0, \h07>>, <<\hFF, \hFF>> }

AnyRoms ==
    { Rom(\h00, t1_c_8, \h00, t0_out, t1_out, h0, h1, h0_t0_out, h1_t0_out) :
        t1_c_8 \in {\h00, \h08}, t0_out \in TOuts, t1_out \in TOuts,
        h0 \in {\h28, \h64, \hC8}, h1 \in {\h28, \h64, \hC8},
        h0_t0_out \in HOuts, h1_t0_out \in HOuts }

InitAnyCalibration ==
    /\ rom \in AnyRoms
    /\ hat = << >>
    /\ last = Idle

AnyGetTemperatureFromHumidity ==
    /\ hat # << >>
    /\ last.op = "idle"
    /\ \E status \in 0..3, lo \in {\h00, \hFF}, hi \in EdgeBytes :
         Called("get_temperature_from_humidity",
                SenseHat_get_temperature_from_humidity(HtsShowing(status, <<0, 0, lo, hi>>)))
    /\ UNCHANGED rom

AnyGetHumidity ==
    /\ hat # << >>
    /\ last.op = "idle"
    /\ \E status \in 0..3, lo \in {\h00, \hFF}, hi \in EdgeBytes :
         Called("get_humidity", SenseHat_get_humidity(HtsShowing(status, <<lo, hi, 0, 0>>)))
    /\ UNCHANGED rom

NextAnyCalibration ==
    \/ Construct
    \/ Return
    \/ AnyGetTemperatureFromHumidity
    \/ AnyGetHumidity

SpecAnyCalibration == InitAnyCalibration /\ [][NextAnyCalibration]_vars

\* PixelPosition: new on every pair of bytes, then one move of the new
\* position by every distance, in either mode
InitPixel ==
    /\ rom = RomScenario
    /\ hat = << >>
    /\ last = Idle

PixelNew ==
    /\ last.op = "idle"
    /\ \E x \in U8, y \in U8 :
         last' = [op |-> "PixelPosition::new", x |-> x, y |-> y,
                  res |-> PixelPosition_new(x, y)]
    /\ UNCHANGED <<rom, hat>>

PixelUp ==
    /\ last.op = "PixelPosition::new"
    /\ last.res.tag = "Ok"
    /\ \E distance \in U8, mode \in Translation, overflow_checks \in BOOLEAN :
         last' = [op |-> "PixelPosition::up", self |-> last.res.v, distance |-> distance,
                  mode |-> mode, overflow_checks |-> overflow_checks,
                  res |-> PixelPosition_up(last.res.v, distance, mode, overflow_checks)]
    /\ UNCHANGED <<rom, hat>>

PixelDown ==
    /\ last.op = "PixelPosition::new"
    /\ last.res.tag = "Ok"
    /\ \E distance \in U8, mode \in Translation :
         last' = [op |-> "PixelPosition::down", self |-> last.res.v, distance |-> distance,
                  mode |-> mode, res |-> PixelPosition_down(last.res.v, distance, mode)]
    /\ UNCHANGED <<rom, hat>>

PixelRight ==
    /\ last.op = "PixelPosition::new"
    /\ last.res.tag = "Ok"
    /\ \E distance \in U8, mode \in Translation, overflow_checks \in BOOLEAN :
         last' = [op |-> "PixelPosition::right", self |-> last.res.v, distance |-> distance,
                  mode |-> mode, overflow_checks |-> overflow_checks,
                  res |-> PixelPosition_right(last.res.v, distance, mode, overflow_checks)]
    /\ UNCHANGED <<rom, hat>>

PixelLeft ==
    /\ last.op = "PixelPosition::new"
    /\ last.res.tag = "Ok"
    /\ \E distance \in U8, mode \in Translation :
         last' = [op |-> "PixelPosition::left", self |-> last.res.v, distance |-> distance,
                  mode |-> mode, res |-> PixelPosition_left(last.res.v, distance, mode)]
    /\ UNCHANGED <<rom, hat>>

NextPixel ==
    \/ PixelNew
    \/ PixelUp
    \/ PixelDown
    \/ PixelRight
    \/ PixelLeft

SpecPixel == InitPixel /\ [][NextPixel]_vars

---------------------------------------------------------------------------
(* Properties of the reads, the conversions and the calibration            *)

\* the signed 16-bit little-endian value of a byte pair
Signed16(low, high) == low + 256 * high - (IF high >= 128 THEN 65536 ELSE 0)

\* the bytes a log read, in order
Vals(log) == [i \in 1..Len(log) |-> log[i].val]

\* the registers a log touched, in order
Regs(log) == [i \in 1..Len(log) |-> log[i].reg]

\* no transaction of the log failed
Clean(log) == \A i \in 1..Len(log) : log[i].err = ""

\* C2: every two-byte sample read (Hts221::get_temperature,
\* Hts221::get_relative_humidity, Lps25h::get_temp) reads the low register
\* then the high register and returns the signed 16-bit little-endian value
\* of the pair: low + 256 * high, minus 65536 when high >= 128.
C2_SignedLittleEndian ==
    /\ last.op = "Hts221::get_temperature" =>
         /\ Regs(last.hlog) = <<\h2a, \h2b>>
         /\ last.res = Ok(Signed16(last.hlog[1].val, last.hlog[2].val))
    /\ last.op = "Hts221::get_relative_humidity" =>
         /\ Regs(last.hlog) = <<\h28, \h29>>
         /\ last.res = Ok(Signed16(last.hlog[1].val, last.hlog[2].val))
    /\ last.op = "Lps25h::get_temp" =>
         /\ Regs(last.plog) = <<\h2b, \h2c>>
         /\ last.res = Ok(Signed16(last.plog[1].val, last.plog[2].val))
    /\ (last.op = "Hts221::get_temperature" /\ Vals(last.hlog) = <<\h00, \h01>>) =>
         last.res.v = 256

\* C2's case: a read of (0xFF, 0xFF) returned -1
C2_Witness ==
    /\ last.op = "Lps25h::get_temp"
    /\ Vals(last.plog) = <<\hFF, \hFF>>
    /\ last.res = Ok(-1)

\* C3: Lps25h::get_pressure returns XL + 256 * L + 65536 * H, below 2^24,
\* and get_pressure_hpa returns that value over 4096; 4096000 gives 1000.
C3_Pressure ==
    LET raw == last.plog[1].val + 256 * last.plog[2].val + 65536 * last.plog[3].val IN
    /\ last.op \in {"Lps25h::get_pressure", "Lps25h::get_pressure_hpa"} =>
         /\ Regs(last.plog) = <<\h28, \h29, \h2a>>
         /\ last.res.tag = "Ok"
    /\ last.op = "Lps25h::get_pressure" =>
         /\ last.res.v = raw
         /\ last.res.v < 16777216
    /\ last.op = "Lps25h::get_pressure_hpa" =>
         /\ last.res.v.d > 0
         /\ 4096 % last.res.v.d = 0
         /\ last.res.v.n * (4096 \div last.res.v.d) = raw
         /\ raw = 4096000 => last.res.v = [n |-> 1000, d |-> 1]

\* C3's case: the bytes of 4096000 gave 1000 hPa
C3_Witness ==
    /\ last.op = "Lps25h::get_pressure_hpa"
    /\ Vals(last.plog) = <<\h00, \h80, \h3E>>
    /\ last.res = Ok([n |-> 1000, d |-> 1])

\* the calibration registers, by address
CalT0 == rom[\h32] + 256 * (rom[\h35] % 4)

CalT1 == rom[\h33] + 256 * ((rom[\h35] \div 4) % 4)

CalT0Out == Signed16(rom[\h3c], rom[\h3d])

CalT1Out == Signed16(rom[\h3e], rom[\h3f])

CalH0Out == Signed16(rom[\h36], rom[\h37])

CalH1Out == Signed16(rom[\h3a], rom[\h3b])

\* the line through (x0, y0 / scale) and (x1, y1 / scale), at x
Interpolate(x, x0, y0, x1, y1, scale) ==
    Ratio(y0 * (x1 - x0) + (x - x0) * (y1 - y0), scale * (x1 - x0))

\* C4: with distinct calibration points the calibrated readings are the
\* two-point linear interpolation through them, unclamped, for every raw
\* code: temperature(raw) = T0 + (raw - T0_OUT) * (T1 - T0) / (T1_OUT - T0_OUT)
\* and the same for humidity; the slope from the first calibration point to
\* any other raw code is temp_m; in the scenario raw 500 gives 0.5 C and
\* raw 1000 gives 35 %.
C4_Interpolation ==
    /\ (last.op = "Hts221::get_temperature_celcius" /\ CalT1Out # CalT0Out) =>
         LET raw == Signed16(last.hlog[1].val, last.hlog[2].val) IN
         /\ last.res = Ok(Interpolate(raw, CalT0Out, CalT0, CalT1Out, CalT1, 8))
         /\ raw # CalT0Out =>
              F64_div(F64_sub(last.res.v, Ratio(CalT0, 8)), F64_from(raw - CalT0Out))
                = hat[1].humidity_chip.temp_m
         /\ hat[1].humidity_chip.temp_m = Ratio(CalT1 - CalT0, 8 * (CalT1Out - CalT0Out))
         /\ (rom = RomScenario /\ raw = 500) => last.res.v = [n |-> 1, d |-> 2]
    /\ (last.op = "Hts221::get_relative_humidity_percent" /\ CalH1Out # CalH0Out) =>
         LET raw == Signed16(last.hlog[1].val, last.hlog[2].val) IN
         /\ last.res = Ok(Interpolate(raw, CalH0Out, rom[\h30], CalH1Out, rom[\h31], 2))
         /\ (rom = RomScenario /\ raw = 1000) => last.res.v = [n |-> 35, d |-> 1]

\* C4's case: in the scenario, raw temperature 500 read as 0.5 C
C4_Witness ==
    /\ rom = RomScenario
    /\ last.op = "Hts221::get_temperature_celcius"
    /\ Signed16(last.hlog[1].val, last.hlog[2].val) = 500
    /\ last.res = Ok([n |-> 1, d |-> 2])

\* the temperature the driver's model gives for a raw code
ModelTemperature(raw) ==
    F64_add(F64_mul(F64_from(raw), hat[1].humidity_chip.temp_m),
            hat[1].humidity_chip.temp_c)

\* a ten-bit code read as two's complement
Signed10(code) == IF code >= 512 THEN code - 1024 ELSE code

\* C5 as stated: T0 and T1 are signed 10-bit codes (-512..511) over 8.
C5_SignedTenBit ==
    (last.op = "new" /\ last.res.tag = "Ok") =>
        /\ ModelTemperature(CalT0Out) = Ratio(Signed10(CalT0), 8)
        /\ ModelTemperature(CalT1Out) = Ratio(Signed10(CalT1), 8)

\* C5 as amended: Hts221::new reads T0_C_8, T1_T0, T1_C_8, T1_T0 first of
\* the calibration registers; T0's code is T0_C_8 plus bits 0-1 of T1_T0 as
\* bits 8-9, T1's code is T1_C_8 plus bits 2-3 of T1_T0 as bits 8-9; each
\* code is a non-negative 10-bit quantity (0..1023) and the calibration
\* temperature is the code over 8.
C5_UnsignedTenBit ==
    (last.op = "new" /\ last.res.tag = "Ok") =>
        /\ SubSeq(Regs(last.hlog), 3, 6) = <<\h32, \h35, \h33, \h35>>
        /\ CalT0 \in 0..1023
        /\ CalT1 \in 0..1023
        /\ ModelTemperature(CalT0Out) = Ratio(CalT0, 8)
        /\ ModelTemperature(CalT1Out) = Ratio(CalT1, 8)

\* C5's case: construction succeeded on a T1_T0 with bit 9 of both codes
\* set and the unused bits set
C5_Witness ==
    /\ last.op = "new"
    /\ last.res.tag = "Ok"
    /\ rom[\h35] = \hFF
    /\ ModelTemperature(CalT0Out) = Ratio(rom[\h32] + 768, 8)

---------------------------------------------------------------------------
(* The status gate, the bus traffic and the errors                         *)

FacadeOps ==
    {"get_temperature_from_humidity", "get_temperature_from_pressure",
     "get_humidity", "get_pressure"}

DriverConversions ==
    {"Hts221::get_temperature_celcius", "Hts221::get_relative_humidity_percent",
     "Lps25h::get_temp_celcius", "Lps25h::get_pressure_hpa"}

OnHts(op) ==
    op \in {"get_temperature_from_humidity", "get_humidity", "Hts221::status",
            "Hts221::get_temperature", "Hts221::get_temperature_celcius",
            "Hts221::get_relative_humidity", "Hts221::get_relative_humidity_percent"}

\* the traffic of the call on the chip it addresses, and on the other chip
OpLog == IF OnHts(last.op) THEN last.hlog ELSE last.plog

OtherLog == IF OnHts(last.op) THEN last.plog ELSE last.hlog

\* the status byte the addressed chip held at each transaction of the call
OpStat == IF OnHts(last.op) THEN last.hstat ELSE last.pstat

\* the status bit an operation's value depends on: bit 0 for temperature,
\* bit 1 for humidity and pressure
Ready(op, status) ==
    IF op \in {"get_temperature_from_humidity", "get_temperature_from_pressure",
               "Hts221::get_temperature_celcius", "Lps25h::get_temp_celcius"}
    THEN status % 2 = 1
    ELSE (status \div 2) % 2 = 1

\* the humidity the driver's model gives for a raw code
ModelHumidity(raw) ==
    F64_add(F64_mul(F64_from(raw), hat[1].humidity_chip.hum_m),
            hat[1].humidity_chip.hum_c)

\* the reading that the sample bytes `b` (in the order read) stand for
Reading(op, b) ==
    CASE op \in {"get_temperature_from_humidity", "Hts221::get_temperature_celcius"} ->
           ModelTemperature(Signed16(b[1], b[2]))
      [] op \in {"get_humidity", "Hts221::get_relative_humidity_percent"} ->
           ModelHumidity(Signed16(b[1], b[2]))
      [] op \in {"get_temperature_from_pressure", "Lps25h::get_temp_celcius"} ->
           Ratio(Signed16(b[1], b[2]) + 20400, 480)
      [] op \in {"get_pressure", "Lps25h::get_pressure_hpa"} ->
           Ratio(b[1] + 256 * b[2] + 65536 * b[3], 4096)

\* the same from the calibration points, for distinct calibration points
Calibrated(op, b) ==
    CASE op = "get_temperature_from_humidity" ->
           Interpolate(Signed16(b[1], b[2]), CalT0Out, CalT0, CalT1Out, CalT1, 8)
      [] op = "get_humidity" ->
           Interpolate(Signed16(b[1], b[2]), CalH0Out, rom[\h30], CalH1Out, rom[\h31], 2)
      [] OTHER -> Reading(op, b)

Unit(op) ==
    CASE op \in {"get_temperature_from_humidity", "get_temperature_from_pressure"} -> "celsius"
      [] op = "get_humidity" -> "percent"
      [] op = "get_pressure" -> "hectopascals"

\* C1: each facade accessor reads its chip's status register first; for
\* every status byte 0..255, if the relevant bit (bit 0 for the two
\* temperature accessors, bit 1 for get_humidity and get_pressure) is clear
\* it returns NotReady whatever the output registers hold, and if the bit is
\* set it returns the value that the output bytes it read and the
\* calibration determine.
C1_StatusGate ==
    last.op \in FacadeOps =>
        /\ OpLog[1].op = "r"
        /\ OpLog[1].reg = \h27
        /\ ~Ready(last.op, OpLog[1].val) => last.res = Err(NotReady)
        /\ Ready(last.op, OpLog[1].val) =>
             last.res = Ok([unit |-> Unit(last.op),
                            value |-> Calibrated(last.op, Tail(Vals(OpLog)))])

\* C1's case: get_humidity saw every status bit but bit 1 set and returned
\* NotReady
C1_Witness ==
    /\ last.op = "get_humidity"
    /\ Vals(last.hlog) = <<\hFD>>
    /\ last.res = Err(NotReady)

\* the traffic of the constructors: <<operation, register, value written>>
HtsNewTraffic ==
    << <<"w", \h20, \h87>>, <<"w", \h10, \h1B>>,
       <<"r", \h32, 0>>, <<"r", \h35, 0>>, <<"r", \h33, 0>>, <<"r", \h35, 0>>,
       <<"r", \h3C, 0>>, <<"r", \h3D, 0>>, <<"r", \h3E, 0>>, <<"r", \h3F, 0>>,
       <<"r", \h30, 0>>, <<"r", \h31, 0>>,
       <<"r", \h36, 0>>, <<"r", \h37, 0>>, <<"r", \h3A, 0>>, <<"r", \h3B, 0>> >>

LpsNewTraffic ==
    << <<"w", \h20, \hC4>>, <<"w", \h10, \h05>>, <<"w", \h2E, \hC0>>, <<"w", \h21, \h40>> >>

\* log is the beginning of traffic
Follows(log, traffic) ==
    /\ Len(log) <= Len(traffic)
    /\ \A i \in 1..Len(log) :
         /\ log[i].op = traffic[i][1]
         /\ log[i].reg = traffic[i][2]
         /\ log[i].op = "w" => log[i].val = traffic[i][3]

\* C6: Hts221::new writes CTRL1 (0x20) = 0x87, then AV_CONF (0x10) = 0x1B,
\* and only then reads the calibration registers; Lps25h::new writes
\* 0x20 = 0xC4, 0x10 = 0x05, 0x2E = 0xC0, 0x21 = 0x40 in that order and
\* reads nothing; no later operation of either driver writes a register.
C6_InitWrites ==
    /\ last.op = "new" =>
         /\ Follows(last.hlog, HtsNewTraffic)
         /\ Follows(last.plog, LpsNewTraffic)
         /\ last.res.tag = "Ok" => (Len(last.hlog) = 16 /\ Len(last.plog) = 4)
    /\ last.op # "new" =>
         /\ \A i \in 1..Len(last.hlog) : last.hlog[i].op = "r"
         /\ \A i \in 1..Len(last.plog) : last.plog[i].op = "r"

\* C6's case: a construction that ran both init sequences to the end
C6_Witness ==
    /\ last.op = "new"
    /\ last.res.tag = "Ok"
    /\ SubSeq(last.hlog, 1, 2) = <<Tx("w", \h20, \h87, ""), Tx("w", \h10, \h1B, "")>>
    /\ last.hlog[3].op = "r"
    /\ Vals(last.plog) = <<\hC4, \h05, \hC0, \h40>>

AllSteps == <<"open5f", "Hts221", "open5c", "Lps25h", "Lsm9ds1", "Screen">>

\* C7: construction fails fast and is all-or-nothing: a failed bus
\* transaction of Hts221::new or Lps25h::new is the last transaction of the
\* construction and its error is what SenseHat::new returns; SenseHat::new
\* returns a handle exactly when both opens, both init sequences, the IMU
\* and the screen succeed, and otherwise an error and no handle.
C7_AllOrNothing ==
    last.op = "new" =>
        /\ last.res.tag = "Ok" <=>
             /\ \A i \in 1..4 : last.outer[i].tag = "Ok"
             /\ Clean(last.hlog) /\ Len(last.hlog) = 16
             /\ Clean(last.plog) /\ Len(last.plog) = 4
        /\ last.res.tag = "Ok" => (hat = <<last.res.v>> /\ last.steps = AllSteps)
        /\ last.res.tag = "Err" => hat = << >>
        /\ \A i \in 1..Len(last.hlog) : last.hlog[i].err # "" =>
             /\ i = Len(last.hlog)
             /\ last.plog = << >>
             /\ last.steps = SubSeq(AllSteps, 1, 2)
             /\ last.res = Err(I2CError(last.hlog[i].err))
        /\ \A i \in 1..Len(last.plog) : last.plog[i].err # "" =>
             /\ i = Len(last.plog)
             /\ last.steps = SubSeq(AllSteps, 1, 4)
             /\ last.res = Err(I2CError(last.plog[i].err))
        /\ last.outer[1].tag = "Err" =>
             (last.hlog = << >> /\ last.plog = << >> /\ last.steps = SubSeq(AllSteps, 1, 1))
        /\ (last.outer[2].tag = "Err" /\ Len(last.steps) >= 3) =>
             (last.plog = << >> /\ last.steps = SubSeq(AllSteps, 1, 3))

\* C7's case: the ninth transaction of Hts221::new failed
C7_Witness ==
    /\ last.op = "new"
    /\ Len(last.hlog) = 9
    /\ last.hlog[9].err = "Io"
    /\ last.plog = << >>
    /\ last.res = Err(I2CError("Io"))
    /\ hat = << >>

\* the registers an operation reads, in order
Reads(op) ==
    CASE op \in {"Hts221::status", "Lps25h::status"} -> <<\h27>>
      [] op = "get_temperature_from_humidity" -> <<\h27, \h2A, \h2B>>
      [] op = "get_humidity" -> <<\h27, \h28, \h29>>
      [] op = "get_temperature_from_pressure" -> <<\h27, \h2B, \h2C>>
      [] op = "get_pressure" -> <<\h27, \h28, \h29, \h2A>>
      [] op \in {"Hts221::get_temperature", "Hts221::get_temperature_celcius"} -> <<\h2A, \h2B>>
      [] op \in {"Hts221::get_relative_humidity", "Hts221::get_relative_humidity_percent"} ->
           <<\h28, \h29>>
      [] op \in {"Lps25h::get_temp", "Lps25h::get_temp_celcius"} -> <<\h2B, \h2C>>
      [] op \in {"Lps25h::get_pressure", "Lps25h::get_pressure_hpa"} -> <<\h28, \h29, \h2A>>

\* C8: every accessor reads status first and then the sample bytes low
\* then high (XL, L, H for pressure); a failed read is the last transaction
\* of the call, the call returns neither a value nor NotReady but that
\* read's error, which the facade returns wrapped as I2CError; and an
\* error is returned only for a read that failed.
C8_TransportErrors ==
    last.op \notin {"idle", "new"} =>
        /\ Len(OpLog) <= Len(Reads(last.op))
        /\ Regs(OpLog) = SubSeq(Reads(last.op), 1, Len(OpLog))
        /\ OtherLog = << >>
        /\ \A i \in 1..Len(OpLog) : OpLog[i].err # "" =>
             /\ i = Len(OpLog)
             /\ last.res = Err(IF last.op \in FacadeOps THEN I2CError(OpLog[i].err)
                               ELSE OpLog[i].err)
        /\ (Clean(OpLog) /\ last.res.tag = "Err") =>
             (last.op \in FacadeOps /\ last.res.e = NotReady)
        /\ (Clean(OpLog) /\ last.res.tag = "Ok") => Len(OpLog) = Len(Reads(last.op))

\* C8's case: get_pressure read status and XL, and the read of L failed
C8_Witness ==
    /\ last.op = "get_pressure"
    /\ Regs(last.plog) = <<\h27, \h28, \h29>>
    /\ last.plog[3].err = "Nix"
    /\ last.res = Err(I2CError("Nix"))

\* C9: every call of a facade accessor reads its chip's status register
\* exactly once, first, and gets the byte the chip holds at that moment;
\* when the relevant bit is clear it returns NotReady with no other bus
\* transaction; and the handle keeps nothing of a call: it stays as
\* SenseHat::new built it.
C9_NoRetry ==
    /\ last.op \in FacadeOps =>
         /\ Cardinality({i \in 1..Len(OpLog) : OpLog[i].reg = \h27}) = 1
         /\ OpLog[1].reg = \h27
         /\ OpLog[1].err = "" => OpLog[1].val = OpStat[1]
         /\ (OpLog[1].err = "" /\ ~Ready(last.op, OpStat[1])) =>
              (last.res = Err(NotReady) /\ Len(OpLog) = 1 /\ OtherLog = << >>)
    /\ hat # << >> => hat[1] = Built(rom)

\* C9's case: get_temperature_from_humidity found bit 0 clear (bit 1 set)
\* and made no other transaction
C9_Witness ==
    /\ last.op = "get_temperature_from_humidity"
    /\ last.hlog = <<Tx("r", \h27, \h02, "")>>
    /\ last.plog = << >>
    /\ last.res = Err(NotReady)

\* C10 as stated: a driver's conversion called directly while the chip's
\* status bit is clear fails instead of returning a converted value.
C10_GateInDriver ==
    (/\ last.op \in DriverConversions
     /\ Clean(OpLog)
     /\ \A i \in 1..Len(OpStat) : ~Ready(last.op, OpStat[i]))
        => last.res.tag = "Err"

\* C10 as amended: the status gate is in the facade's accessors, not in the
\* drivers: Hts221::get_temperature_celcius, get_relative_humidity_percent,
\* Lps25h::get_temp_celcius and get_pressure_hpa never read the status
\* register and, unless a read fails, return the converted value of the
\* output bytes whatever the status bits are; each facade accessor reads
\* status itself and returns NotReady, without calling the conversion, when
\* the bit is clear.
C10_GateInFacade ==
    /\ last.op \in DriverConversions =>
         /\ \A i \in 1..Len(OpLog) : OpLog[i].reg # \h27
         /\ Clean(OpLog) => last.res = Ok(Reading(last.op, Vals(OpLog)))
    /\ (last.op \in FacadeOps /\ OpLog[1].err = "") =>
         /\ OpLog[1].reg = \h27
         /\ IF Ready(last.op, OpLog[1].val)
            THEN Clean(OpLog) =>
                   last.res = Ok([unit |-> Unit(last.op),
                                  value |-> Reading(last.op, Tail(Vals(OpLog)))])
            ELSE Len(OpLog) = 1 /\ last.res = Err(NotReady)

\* C10's case: Hts221::get_temperature_celcius, called with every status
\* bit clear, returned the value of raw code 500
C10_Witness ==
    /\ last.op = "Hts221::get_temperature_celcius"
    /\ last.hstat = <<0, 0>>
    /\ Vals(last.hlog) = <<\hF4, \h01>>
    /\ last.res = Ok(ModelTemperature(500))

---------------------------------------------------------------------------
(* The pressure chip's temperature                                         *)

\* C11: for every signed 16-bit raw code Lps25h::get_temp_celcius returns
\* C = raw / 480 + 42.5, that is 480 * (C - 42.5) = raw, whatever the
\* humidity chip's calibration is; raw 0 gives exactly 42.5.
C11_PressureTemperature ==
    last.op = "Lps25h::get_temp_celcius" =>
        LET raw == Signed16(last.plog[1].val, last.plog[2].val) IN
        /\ Regs(last.plog) = <<\h2B, \h2C>>
        /\ last.res.tag = "Ok"
        /\ last.res.v.d > 0
        /\ 2 * 480 * last.res.v.n - 480 * 85 * last.res.v.d = 2 * raw * last.res.v.d
        /\ raw = 0 => last.res.v = [n |-> 85, d |-> 2]

\* C11's case: raw 0 read as 42.5 C on the calibration with the high bits set
C11_Witness ==
    /\ rom = RomHighBits
    /\ last.op = "Lps25h::get_temp_celcius"
    /\ Vals(last.plog) = <<\h00, \h00>>
    /\ last.res = Ok([n |-> 85, d |-> 2])

---------------------------------------------------------------------------
(* The calibration                                                         *)

\* the four calibration scalars of a handle's humidity driver
Scalars(self) ==
    <<self.humidity_chip.temp_m, self.humidity_chip.temp_c,
      self.humidity_chip.hum_m, self.humidity_chip.hum_c>>

\* C12: temp_m, temp_c, hum_m and hum_c are written by Hts221::new and no
\* later call changes them, whether it returns a value, NotReady or a bus
\* error; after construction no call reads a calibration register (only
\* the status and output registers 0x27..0x2B are read).
C12_CalibrationFrame ==
    [][/\ (hat # << >> /\ hat' # << >>) => Scalars(hat'[1]) = Scalars(hat[1])
       /\ last'.op \notin {"idle", "new"} =>
            \A i \in 1..Len(last'.hlog) : last'.hlog[i].reg \in \h27..\h2B]_vars

\* C12's case: Hts221::get_temperature_celcius failed on its second read
\* and the scalars are those of construction
C12_Witness ==
    /\ rom = RomHighBits
    /\ last.op = "Hts221::get_temperature_celcius"
    /\ Len(last.hlog) = 2
    /\ last.hlog[2].err = "Io"
    /\ Scalars(hat[1]) = Scalars(Built(rom))

\* the calibration points of the operation's model coincide
Degenerate(op) ==
    IF op = "get_temperature_from_humidity" THEN CalT1Out = CalT0Out
    ELSE CalH1Out = CalH0Out

\* C13: whatever the calibration registers hold, T1_OUT = T0_OUT and
\* H1_T0_OUT = H0_T0_OUT included, a construction whose bus operations all
\* succeed returns a handle, and a gated read that finds its bit set
\* returns Ok: a NaN or an infinity when the calibration points of its
\* model coincide, a finite value otherwise; the only error is NotReady.
C13_DegenerateCalibration ==
    /\ last.op = "new" => (last.res.tag = "Ok" /\ hat = <<last.res.v>>)
    /\ last.op \in {"get_temperature_from_humidity", "get_humidity"} =>
         /\ last.res.tag = "Err" => last.res.e = NotReady
         /\ Ready(last.op, last.hlog[1].val) =>
              /\ last.res.tag = "Ok"
              /\ is_finite(last.res.v.value) <=> ~Degenerate(last.op)

\* C13's case: T1_OUT = T0_OUT and get_temperature_from_humidity returned
\* Ok(NaN)
C13_Witness ==
    /\ CalT1Out = CalT0Out
    /\ last.op = "get_temperature_from_humidity"
    /\ last.res.tag = "Ok"
    /\ is_nan(last.res.v.value)

\* C14 as stated: every value get_humidity returns is a relative humidity
\* between 0 and 100 percent.
C14_HumidityInRange ==
    (last.op = "get_humidity" /\ last.res.tag = "Ok") =>
        /\ is_finite(last.res.v.value)
        /\ last.res.v.value.n >= 0
        /\ last.res.v.value.n <= 100 * last.res.v.value.d

---------------------------------------------------------------------------
(* PixelPosition                                                           *)

\* C15: PixelPosition::new(x, y) is an error exactly when x >= 8 or
\* y >= 8, for all x, y in 0..255; otherwise it is a position holding that
\* x and that y.
C15_PixelPositionNew ==
    last.op = "PixelPosition::new" =>
        /\ last.res.tag = "Err" <=> (last.x >= 8 \/ last.y >= 8)
        /\ last.res.tag = "Ok" => last.res.v = [x |-> last.x, y |-> last.y]

\* C15's case: new(7, 8) is an error
C15_Witness ==
    /\ last.op = "PixelPosition::new"
    /\ last.x = 7
    /\ last.y = 8
    /\ last.res.tag = "Err"

\* C16 as stated: left(d, Wrap) gives x' = (x - d) mod 8 in 0..7 and leaves
\* y; down(d, Wrap) gives y' = (y - d) mod 8 in 0..7 and leaves x.
C16_WrapLeftDown ==
    /\ (last.op = "PixelPosition::left" /\ last.mode = "Wrap") =>
         last.res = Returned([x |-> (last.self.x - last.distance) % 8, y |-> last.self.y])
    /\ (last.op = "PixelPosition::down" /\ last.mode = "Wrap") =>
         last.res = Returned([x |-> last.self.x, y |-> (last.self.y - last.distance) % 8])

\* C17 as stated: right(d, Wrap) returns, without arithmetic overflow,
\* x' = (x + d) mod 8 and leaves y; up(d, Wrap) returns y' = (y + d) mod 8
\* and leaves x.
C17_WrapRightUp ==
    /\ (last.op = "PixelPosition::right" /\ last.mode = "Wrap") =>
         last.res = Returned([x |-> (last.self.x + last.distance) % 8, y |-> last.self.y])
    /\ (last.op = "PixelPosition::up" /\ last.mode = "Wrap") =>
         last.res = Returned([x |-> last.self.x, y |-> (last.self.y + last.distance) % 8])

Min(a, b) == IF a < b THEN a ELSE b

Max(a, b) == IF a > b THEN a ELSE b

\* C18: with Translation::Clip a move stops at the edge: up gives
\* y' = min(y + d, 7), right gives x' = min(x + d, 7), down gives
\* y' = max(y - d, 0), left gives x' = max(x - d, 0), each leaving the
\* other coordinate, for every position and every distance in 0..255.
C18_Clip ==
    (last.op \in {"PixelPosition::up", "PixelPosition::right", "PixelPosition::down",
                  "PixelPosition::left"} /\ last.mode = "Clip") =>
        last.res =
            Returned(CASE last.op = "PixelPosition::up" ->
                            [x |-> last.self.x, y |-> Min(last.self.y + last.distance, 7)]
                       [] last.op = "PixelPosition::right" ->
                            [x |-> Min(last.self.x + last.distance, 7), y |-> last.self.y]
                       [] last.op = "PixelPosition::down" ->
                            [x |-> last.self.x, y |-> Max(last.self.y - last.distance, 0)]
                       [] last.op = "PixelPosition::left" ->
                            [x |-> Max(last.self.x - last.distance, 0), y |-> last.self.y])

\* C18's case: (0, 0) moved up by 100 is (0, 7)
C18_Witness ==
    /\ last.op = "PixelPosition::up"
    /\ last.mode = "Clip"
    /\ last.self = [x |-> 0, y |-> 0]
    /\ last.distance = 100
    /\ last.res = Returned([x |-> 0, y |-> 7])

---------------------------------------------------------------------------
(* The display calls of the facade on a built handle.  A call that panics  *)
(* leaves the handle as the unwinding finds it.                            *)

Colours == {PixelColor_new(0, 0, 0), PixelColor_new(255, 0, 0), PixelColor_new(8, 252, 248)}

\* the call made before this one, and the rotation it asked for
Before == [op |-> last.op,
           rotation |-> IF last.op = "set_rotation" THEN last.rotation ELSE "Normal"]

SetRotation ==
    /\ hat # << >>
    /\ \E rotation \in Rotation, redraw \in DrawMode :
         LET c == SenseHat_set_rotation(hat[1], rotation, redraw) IN
         /\ hat' = <<c.self>>
         /\ last' = [op |-> "set_rotation", rotation |-> rotation, redraw |-> redraw,
                     res |-> c.r, after |-> Before]
    /\ UNCHANGED rom

GetRotation ==
    /\ hat # << >>
    /\ last' = [op |-> "get_rotation", res |-> SenseHat_get_rotation(hat[1]),
                after |-> Before]
    /\ UNCHANGED <<rom, hat>>

GetPixels ==
    /\ hat # << >>
    /\ last' = [op |-> "get_pixels", res |-> SenseHat_get_pixels(hat[1]),
                after |-> Before]
    /\ UNCHANGED <<rom, hat>>

Clear ==
    /\ hat # << >>
    /\ \E color \in Colours, redraw \in DrawMode :
         LET c == SenseHat_clear(hat[1], color, redraw) IN
         /\ hat' = <<c.self>>
         /\ last' = [op |-> "clear", color |-> color, redraw |-> redraw,
                     res |-> c.r, after |-> Before]
    /\ UNCHANGED rom

NextDisplay == SetRotation \/ GetRotation \/ GetPixels \/ Clear

SpecDisplay == InitScenario /\ [][NextDisplay]_vars

\* C19: set_rotation(r, mode) completes normally for every rotation r and
\* every draw mode, a get_rotation() that follows it returns r, and
\* get_pixels() still returns the image the handle holds.
C19_SetRotation ==
    /\ last.op = "set_rotation" =>
          /\ last.res = Returned(<< >>)
          /\ hat[1].rotation = last.rotation
    /\ (last.op = "get_rotation" /\ last.after.op = "set_rotation") =>
          last.res = Returned(last.after.rotation)
    /\ last.op = "get_pixels" => last.res = Returned(hat[1].image)

---------------------------------------------------------------------------
(* The IMU calls of the facade on a built handle.  Each call meets an IMU  *)
(* that has a new sample or not and that hands the sample over or fails.   *)
(* stored is the orientation handed over to the most recent                *)
(* get_orientation that saw a new sample, (0, 0, 0) before the first.      *)

Orientations ==
    {[roll |-> 10, pitch |-> 20, yaw |-> 30], [roll |-> 350, pitch |-> 0, yaw |-> 90],
     [roll |-> 0, pitch |-> 0, yaw |-> 180], [roll |-> 45, pitch |-> 315, yaw |-> 270]}

ImuEnvs == [read : BOOLEAN, data : {Ok(o) : o \in Orientations} \cup {Err("RTIMULibError")}]

Stored == IF last.op = "idle" THEN [roll |-> 0, pitch |-> 0, yaw |-> 0] ELSE last.stored

ImuSelf(imu) == WithImu(hat[1], Polling(hat[1].accelerometer_chip, imu))

GetOrientation ==
    /\ hat # << >>
    /\ \E imu \in ImuEnvs :
         LET c == SenseHat_get_orientation(ImuSelf(imu)) IN
         /\ hat' = <<WithImu(c.self, Polled(c.self.accelerometer_chip))>>
         /\ last' = [op |-> "get_orientation", res |-> c.r, imu |-> imu,
                     calls |-> c.self.accelerometer_chip.calls,
                     before |-> hat[1].orientation,
                     stored |-> IF imu.read /\ imu.data.tag = "Ok"
                                THEN imu.data.v ELSE Stored]
    /\ UNCHANGED rom

GetCompass ==
    /\ hat # << >>
    /\ \E imu \in ImuEnvs :
         LET c == SenseHat_get_compass(ImuSelf(imu)) IN
         /\ hat' = <<WithImu(c.self, Polled(c.self.accelerometer_chip))>>
         /\ last' = [op |-> "get_compass", res |-> c.r, imu |-> imu,
                     calls |-> c.self.accelerometer_chip.calls,
                     before |-> hat[1].orientation, stored |-> Stored]
    /\ UNCHANGED rom

GetGyro ==
    /\ hat # << >>
    /\ \E imu \in ImuEnvs :
         LET c == SenseHat_get_gyro(ImuSelf(imu)) IN
         /\ hat' = <<WithImu(c.self, Polled(c.self.accelerometer_chip))>>
         /\ last' = [op |-> "get_gyro", res |-> c.r, imu |-> imu,
                     calls |-> c.self.accelerometer_chip.calls,
                     before |-> hat[1].orientation, stored |-> Stored]
    /\ UNCHANGED rom

GetAccel ==
    /\ hat # << >>
    /\ \E imu \in ImuEnvs :
         LET c == SenseHat_get_accel(ImuSelf(imu)) IN
         /\ hat' = <<WithImu(c.self, Polled(c.self.accelerometer_chip))>>
         /\ last' = [op |-> "get_accel", res |-> c.r, imu |-> imu,
                     calls |-> c.self.accelerometer_chip.calls,
                     before |-> hat[1].orientation, stored |-> Stored]
    /\ UNCHANGED rom

NextImu == GetOrientation \/ GetCompass \/ GetGyro \/ GetAccel

SpecImu == InitScenario /\ [][NextImu]_vars

ImuOps == {"get_orientation", "get_compass", "get_gyro", "get_accel"}

ImuReads(calls) == Cardinality({i \in 1 .. Len(calls) : calls[i] = "imu_read"})

\* C20: every IMU call asks the IMU once whether it has a new sample and
\* never asks again.  get_orientation never answers NotReady: without a new
\* sample it returns the cached orientation, which is (0, 0, 0) at first and
\* otherwise the one stored by the most recent get_orientation that was
\* handed a new sample.  get_compass, get_gyro and get_accel answer NotReady
\* without a new sample and never change the cached orientation.
C20_ImuCache ==
    /\ last.op = "idle" => hat[1].orientation = [roll |-> 0, pitch |-> 0, yaw |-> 0]
    /\ last.op \in ImuOps =>
          /\ ImuReads(last.calls) = 1
          /\ hat[1].orientation = last.stored
    /\ last.op = "get_orientation" =>
          /\ ~(last.res.tag = "Err" /\ last.res.e.kind = "NotReady")
          /\ ~last.imu.read =>
                /\ last.res = Ok(last.before)
                /\ last.calls = <<"set_fusion", "imu_read">>
          /\ last.res.tag = "Ok" => last.res.v = last.stored
    /\ last.op \in ImuOps \ {"get_orientation"} =>
          /\ ~last.imu.read => last.res = Err(NotReady)
          /\ hat[1].orientation = last.before

C20_Witness ==
    /\ last.op = "get_orientation"
    /\ ~last.imu.read
    /\ last.before = [roll |-> 10, pitch |-> 20, yaw |-> 30]
    /\ last.res = Ok(last.before)
    /\ hat[1].orientation = last.before

---------------------------------------------------------------------------
(* The facade's accessors on a chip that may replace its sample, status    *)
(* and all output bytes together, between any two bus transactions: the    *)
(* environment chooses the sample the chip holds at each transaction of    *)
(* the call.  held is the register file the addressed chip held at each    *)
(* transaction the call made.                                              *)

HtsMoving == { HtsSample(s, o) : s \in {\h00, \h03}, o \in HtsOut }

LpsMoving == { LpsSample(s, o) : s \in {\h00, \h03}, o \in LpsOut }

\* the chip holding samples[i] at transaction i
Resampling(samples) ==
    [i \in 1..ChipLen |-> samples[IF i <= MaxTx THEN i ELSE MaxTx]]

HtsResampled(samples) ==
    Plug(hat[1], Resampling([i \in 1..MaxTx |-> HtsFile(rom, samples[i])]), NoFault,
         IdleLps, NoFault)

LpsResampled(samples) ==
    Plug(hat[1], IdleHts, NoFault, Resampling(samples), NoFault)

Held(i2cdev) == [i \in 1..Len(i2cdev.log) |-> i2cdev.chip[i]]

ResampledGetTemperatureFromHumidity ==
    /\ last.op = "idle"
    /\ \E samples \in [1..MaxTx -> HtsMoving] :
         LET out == SenseHat_get_temperature_from_humidity(HtsResampled(samples)) IN
         /\ last' = Observe("get_temperature_from_humidity", out)
                        @@ [held |-> Held(out.self.humidity_chip.i2cdev)]
         /\ hat' = <<Unplug(out.self)>>
    /\ UNCHANGED rom

ResampledGetHumidity ==
    /\ last.op = "idle"
    /\ \E samples \in [1..MaxTx -> HtsMoving] :
         LET out == SenseHat_get_humidity(HtsResampled(samples)) IN
         /\ last' = Observe("get_humidity", out)
                        @@ [held |-> Held(out.self.humidity_chip.i2cdev)]
         /\ hat' = <<Unplug(out.self)>>
    /\ UNCHANGED rom

ResampledGetTemperatureFromPressure ==
    /\ last.op = "idle"
    /\ \E samples \in [1..MaxTx -> LpsMoving] :
         LET out == SenseHat_get_temperature_from_pressure(LpsResampled(samples)) IN
         /\ last' = Observe("get_temperature_from_pressure", out)
                        @@ [held |-> Held(out.self.pressure_chip.i2cdev)]
         /\ hat' = <<Unplug(out.self)>>
    /\ UNCHANGED rom

ResampledGetPressure ==
    /\ last.op = "idle"
    /\ \E samples \in [1..MaxTx -> LpsMoving] :
         LET out == SenseHat_get_pressure(LpsResampled(samples)) IN
         /\ last' = Observe("get_pressure", out)
                        @@ [held |-> Held(out.self.pressure_chip.i2cdev)]
         /\ hat' = <<Unplug(out.self)>>
    /\ UNCHANGED rom

NextResampled ==
    \/ Return
    \/ ResampledGetTemperatureFromHumidity
    \/ ResampledGetHumidity
    \/ ResampledGetTemperatureFromPressure
    \/ ResampledGetPressure

SpecResampled == InitScenario /\ [][NextResampled]_vars

\* the output registers an accessor's value is assembled from, in the order
\* of the bytes of the value
OutRegs(op) ==
    CASE op = "get_temperature_from_humidity" -> <<\h2A, \h2B>>
      [] op = "get_humidity" -> <<\h28, \h29>>
      [] op = "get_temperature_from_pressure" -> <<\h2B, \h2C>>
      [] op = "get_pressure" -> <<\h28, \h29, \h2A>>

\* the output bytes of the sample the chip held at transaction i of the call
SampleBytes(i) ==
    [k \in 1..Len(OutRegs(last.op)) |-> last.held[i][OutRegs(last.op)[k]]]

\* byte k as the chip held it at the transaction after the status read and
\* the k - 1 output reads before it
BytesAsRead ==
    [k \in 1..Len(OutRegs(last.op)) |-> last.held[k + 1][OutRegs(last.op)[k]]]

Value(b) == Ok([unit |-> Unit(last.op), value |-> Calibrated(last.op, b)])

\* C21 as stated: on a chip that may replace its sample between any two
\* transactions, every value a gated accessor returns is assembled from the
\* bytes of one sample the chip held at some transaction of the call.
C21_OneSample ==
    (last.op \in FacadeOps /\ last.res.tag = "Ok") =>
        \E i \in 1..Len(last.held) : last.res = Value(SampleBytes(i))

\* C21 as the code has it: a gated accessor returns a value only when the
\* sample held at the status read had the relevant bit set, and byte k of
\* the value is the byte the chip held at the moment register k was read,
\* one transaction after the other; the value is that of one sample when
\* the output bytes did not change from the first output read to the last,
\* and may mix samples otherwise.
C21_BytesAsRead ==
    (last.op \in FacadeOps /\ last.res.tag = "Ok") =>
        /\ Ready(last.op, last.held[1][\h27])
        /\ Len(last.held) = 1 + Len(OutRegs(last.op))
        /\ last.res = Value(BytesAsRead)
        /\ (\A i \in 2..Len(last.held) : SampleBytes(i) = SampleBytes(2)) =>
              last.res = Value(SampleBytes(2))

\* C21's case: get_temperature_from_humidity read the low byte of one
\* sample (500) and the high byte of the next (-1) and returned the value of
\* neither
C21_Witness ==
    /\ last.op = "get_temperature_from_humidity"
    /\ last.res.tag = "Ok"
    /\ SampleBytes(2) = <<\hF4, \h01>>
    /\ SampleBytes(3) = <<\hFF, \hFF>>
    /\ last.res = Value(<<\hF4, \hFF>>)
    /\ \A i \in 1..Len(last.held) : last.res # Value(SampleBytes(i))

====
